---- MODULE Spec2Model ----
(***************************************************************************)
(* Model of clang/lib/Sema/SemaSYCL.cpp: kernel-signature flattening       *)
(* (buildArgTys), integration-header population (populateIntHeader),      *)
(* entry-point synthesis (CreateOpenCLKernelDeclaration,                   *)
(* CreateOpenCLKernelBody), the integration header emission                *)
(* (SYCLIntegrationHeader::emit) and the device marking pass               *)
(* (Sema::MarkDevice, MarkDeviceFunction).                                 *)
(***************************************************************************)
EXTENDS Integers, Sequences, FiniteSets, TLC

(***************************************************************************)
(* Bounds of the model.                                                    *)
(***************************************************************************)
\* Largest number of field declarations (all nesting levels together) of a
\* kernel object drawn by SpecSig.
MaxNodes == 3
\* Largest number of parameters of an accessor's __init method.
MaxInit == 2
\* Largest number of kernels constructed in one translation unit by Spec.
MaxKernels == 3
\* Number of functions (entry points included) of a program drawn by SpecMark.
MaxFuncs == 4
\* Largest number of direct calls in a program drawn by SpecMark.
MaxCalls == 4

\* The nesting depth of template arguments in a kernel name type.
MaxTypeDepth == 2
\* The width of unsigned int, scaled down from 32 bits to keep the numbers
\* small; the widths of the difference types are scaled with it.
UnsignedBits == 8
\* Largest dimension count of an accessor drawn by SpecInfo.
MaxDims == 3

(***************************************************************************)
(* The type/declaration graph handed over by the front end.               *)
(*                                                                         *)
(* A field declaration is a record                                         *)
(*   kind   : classification of its type ("accessor" = a specialization    *)
(*            of cl::sycl::accessor, "sampler" = cl::sycl::sampler,        *)
(*            "struct" = any other structure or class, "pointer",          *)
(*            "scalar" = a non-pointer scalar, "array" = a type that is    *)
(*            none of these)                                               *)
(*   n      : number of parameters of the __init method (special objects)  *)
(*   std    : the type is a standard-layout type                           *)
(*   fields : the field declarations of a "struct", in declaration order   *)
(* A FieldDecl is identified by its path: the sequence of field indices    *)
(* (1-based) leading from the kernel object to it.                         *)
(***************************************************************************)
Fld(k, n, s, fs) == [kind |-> k, n |-> n, std |-> s, fields |-> fs]

\* An accessor field with the template arguments of its specialization:
\* the dimensions and the access target.
AccessorFld(n, Target, Dims) ==
    [kind |-> "accessor", n |-> n, std |-> TRUE, fields |-> <<>>,
     target |-> Target, dims |-> Dims]

\* Field types that can occur inside a wrapper record.
NestedLeaves ==
    {Fld("accessor", n, TRUE, <<>>) : n \in 1..MaxInit}
        \cup {Fld("sampler", 1, TRUE, <<>>), Fld("scalar", 0, TRUE, <<>>)}

\* Field types that can occur directly in a kernel object.
TopLeaves ==
    NestedLeaves \cup {Fld("pointer", 0, TRUE, <<>>), Fld("array", 0, TRUE, <<>>)}

\* Field lists of wrapper records with exactly n field declarations in all.
NestedForest[n \in 0..MaxNodes] ==
    IF n = 0 THEN {<<>>}
    ELSE UNION {
           LET first == IF k = 1
                        THEN NestedLeaves \cup {Fld("struct", 0, TRUE, <<>>)}
                        ELSE {Fld("struct", 0, TRUE, fs) : fs \in NestedForest[k - 1]}
           IN  {<<f>> \o rest : f \in first, rest \in NestedForest[n - k]}
           : k \in 1..n}

\* Field lists of kernel objects with exactly n field declarations in all.
\* Only the standard-layout property of a kernel object's own fields is read.
TopForest[n \in 0..MaxNodes] ==
    IF n = 0 THEN {<<>>}
    ELSE UNION {
           LET first == IF k = 1
                        THEN TopLeaves
                               \cup {Fld("struct", 0, s, <<>>) : s \in BOOLEAN}
                        ELSE {Fld("struct", 0, s, fs) :
                                 s \in BOOLEAN, fs \in NestedForest[k - 1]}
           IN  {<<f>> \o rest : f \in first, rest \in TopForest[n - k]}
           : k \in 1..n}

\* The kernel objects SpecSig draws from: a lambda (one field per capture) or
\* a functor, with its field list.
KernelObjs ==
    {[lambda |-> l, fields |-> fs] :
        l \in BOOLEAN, fs \in UNION {TopForest[n] : n \in 0..MaxNodes}}

(***************************************************************************)
(* Queries on types (clang::Type, Util).                                   *)
(***************************************************************************)
isSyclAccessorType(f) == f.kind = "accessor"

isSyclSamplerType(f) == f.kind = "sampler"

\* Accessors and samplers are classes, so they are structure-or-class types.
isStructureOrClassType(f) == f.kind \in {"struct", "accessor", "sampler"}

isPointerType(f) == f.kind = "pointer"

\* Type::isScalarType: pointers are scalar types too.
isScalarType(f) == f.kind \in {"scalar", "pointer"}

\* Type::getAsCXXRecordDecl is non-null.
hasCXXRecordDecl(f) == f.kind \in {"struct", "accessor", "sampler"}

isStandardLayoutType(f) == f.std

\* A QualType: the declared type of a field, or of a parameter of __init.
\* sugar: written through a typedef or alias; as: address space of the pointee.
FieldType(f) ==
    [tag |-> f.kind, decl |-> f, i |-> 0, sugar |-> FALSE, as |-> "default"]

\* The declared type of the I-th parameter (0-based) of the __init method of
\* the special object type f.
InitParamType(f, I) ==
    [tag |-> "initparam", decl |-> f, i |-> I, sugar |-> TRUE, as |-> "default"]

getCanonicalType(T) == [T EXCEPT !.sugar = FALSE]

\* The parameter count of the __init method found by getInitMethod.
getNumParams(f) == f.n

(***************************************************************************)
(* Record layout (ASTRecordLayout, getTypeSizeInChars), in bytes.         *)
(* A record that is not standard-layout starts with an 8-byte header       *)
(* (a virtual table pointer); fields follow without padding.               *)
(***************************************************************************)
RECURSIVE getTypeSizeInChars(_)
RECURSIVE SizeOfFields(_, _)
SizeOfFields(flds, upto) ==
    IF upto = 0 THEN 0
    ELSE SizeOfFields(flds, upto - 1) + getTypeSizeInChars(flds[upto])

getTypeSizeInChars(f) ==
    CASE f.kind = "scalar"   -> 4
      [] f.kind = "pointer"  -> 8
      [] f.kind = "sampler"  -> 8
      [] f.kind = "accessor" -> 16
      [] f.kind = "array"    -> 12
      [] f.kind = "struct"   ->
            (IF f.std THEN 0 ELSE 8) + SizeOfFields(f.fields, Len(f.fields))

\* ASTRecordLayout::getFieldOffset: the offset in BITS of field number idx
\* (1-based here) of a record with the given header size and field list.
getFieldOffset(hdr, flds, idx) == 8 * (hdr + SizeOfFields(flds, idx - 1))

HeaderOf(f) == IF f.std THEN 0 ELSE 8

(***************************************************************************)
(* buildArgTys: the raw parameter slots (ParamDesc) of a kernel object.    *)
(* A slot is [ty, src]: the parameter type and the FieldDecl (its path)    *)
(* the parameter name "_arg_<field>" is made from.                         *)
(***************************************************************************)
makeParamDesc(Src, Ty) == [ty |-> Ty, src |-> Src]

\* One slot per parameter of __init, in order, of canonical type.
RECURSIVE InitSlotsFrom(_, _, _)
InitSlotsFrom(f, path, I) ==
    IF I >= getNumParams(f) THEN <<>>
    ELSE <<makeParamDesc(path, getCanonicalType(InitParamType(f, I)))>>
            \o InitSlotsFrom(f, path, I + 1)

\* Mutant: the loop over the __init parameters starts at 1.
createSpecialSYCLObjParamDesc_SkipFirst(f, path) == InitSlotsFrom(f, path, 1)

createSpecialSYCLObjParamDesc(f, path) == InitSlotsFrom(f, path, 0)

\* The slots of the accessors found in the fields i.. of the wrapper at path.
RECURSIVE createParamDescForWrappedAccessors(_, _, _)
createParamDescForWrappedAccessors(flds, path, i) ==
    IF i > Len(flds) THEN <<>>
    ELSE LET f == flds[i]
             p == Append(path, i)
             here == IF isStructureOrClassType(f)
                     THEN IF isSyclAccessorType(f)
                          THEN createSpecialSYCLObjParamDesc(f, p)
                          ELSE createParamDescForWrappedAccessors(f.fields, p, 1)
                     ELSE <<>>
         IN  here \o createParamDescForWrappedAccessors(flds, path, i + 1)

\* Pointer arguments are moved to the global address space.
GlobalPointerType(f) == [FieldType(f) EXCEPT !.as = "opencl_global"]

\* The declaration the layout diagnostic is reported at: Cpt is
\* captures_begin() and is never advanced.
NonStdLayoutLoc(KernelObj, i) ==
    IF KernelObj.lambda THEN <<"capture", 1>> ELSE <<"field", i>>

\* The slots contributed by the top-level field i of the kernel object.
FieldSlots(KernelObj, i) ==
    LET f == KernelObj.fields[i]
    IN  IF isSyclAccessorType(f) \/ isSyclSamplerType(f)
        THEN createSpecialSYCLObjParamDesc(f, <<i>>)
        ELSE IF isStructureOrClassType(f)
        THEN <<makeParamDesc(<<i>>, FieldType(f))>>
                \o createParamDescForWrappedAccessors(f.fields, <<i>>, 1)
        ELSE IF isPointerType(f)
        THEN <<makeParamDesc(<<i>>, GlobalPointerType(f))>>
        ELSE <<makeParamDesc(<<i>>, FieldType(f))>>

\* The field types buildArgTys (and populateIntHeader) handles; any other
\* type runs into llvm_unreachable.
SupportedFieldType(f) ==
    \/ isSyclAccessorType(f) \/ isSyclSamplerType(f)
    \/ isStructureOrClassType(f) \/ isPointerType(f) \/ isScalarType(f)

\* acc = [ok, ParamDescs, diags]; ok = FALSE: llvm_unreachable was reached.
\* llvm_unreachable aborts in a build with assertions; in a build without
\* them it is __builtin_unreachable, the behaviour is undefined and the
\* compiled loop has no test left for its last branch: ParamDescs then holds
\* what this build makes, the field handled as by the scalar branch.
RECURSIVE buildArgTysFrom(_, _, _)
buildArgTysFrom(KernelObj, i, acc) ==
    IF i > Len(KernelObj.fields) THEN acc
    ELSE LET f == KernelObj.fields[i]
         IN  buildArgTysFrom(KernelObj, i + 1,
                    [acc EXCEPT
                       !.ok = @ /\ SupportedFieldType(f),
                       !.ParamDescs = @ \o FieldSlots(KernelObj, i),
                       !.diags = IF /\ ~isSyclAccessorType(f)
                                    /\ ~isSyclSamplerType(f)
                                    /\ isStructureOrClassType(f)
                                    /\ ~isStandardLayoutType(f)
                                 THEN Append(@,
                                        [id |-> "err_sycl_non_std_layout_type",
                                         loc |-> NonStdLayoutLoc(KernelObj, i)])
                                 ELSE @])

buildArgTys(KernelObj) ==
    buildArgTysFrom(KernelObj, 1, [ok |-> TRUE, ParamDescs |-> <<>>, diags |-> <<>>])

(***************************************************************************)
(* populateIntHeader: the parameter descriptors registered for a kernel.   *)
(* A descriptor is [Kind, Info, Offset]; src (the FieldDecl the descriptor *)
(* was registered for) is kept beside it for reference, it is not part of  *)
(* what emit writes.                                                       *)
(***************************************************************************)
\* Bitwise or of two naturals.
RECURSIVE BitOr(_, _)
BitOr(a, b) ==
    IF a = 0 THEN b
    ELSE IF b = 0 THEN a
    ELSE (IF a % 2 = 1 \/ b % 2 = 1 THEN 1 ELSE 0) + 2 * BitOr(a \div 2, b \div 2)

\* enum target
global_buffer == 2014

image_array == 2020

\* The template arguments of an accessor specialization: [1] the dimensions,
\* [3] the access target; a field written without them is a
\* one-dimensional global_buffer accessor.
AccessorDims(f) == IF "dims" \in DOMAIN f THEN f.dims ELSE 1

getAccessTarget(f) == IF "target" \in DOMAIN f THEN f.target ELSE global_buffer

addParamDesc(Kind, Info, Offset, src) ==
    [Kind |-> Kind, Info |-> Info, Offset |-> Offset, src |-> src]

\* Mutant: the dimensions are shifted by 8 bits.
populateHeaderForAccessor_Shift8(f, Offset, src) ==
    addParamDesc("kind_accessor",
                 BitOr(getAccessTarget(f), AccessorDims(f) * (2 ^ 8)),
                 Offset, src)

populateHeaderForAccessor(f, Offset, src) ==
    addParamDesc("kind_accessor",
                 BitOr(getAccessTarget(f), AccessorDims(f) * (2 ^ 11)),
                 Offset, src)

\* Mutant: wrappers nested in a wrapper are not searched.
RECURSIVE populateHeaderForWrappedAccessors_Shallow(_, _, _, _)
populateHeaderForWrappedAccessors_Shallow(Wrapper, Offset, path, i) ==
    IF i > Len(Wrapper.fields) THEN <<>>
    ELSE LET f == Wrapper.fields[i]
             OffsetInWrapper ==
                 getFieldOffset(HeaderOf(Wrapper), Wrapper.fields, i) \div 8
             here == IF isSyclAccessorType(f)
                     THEN <<populateHeaderForAccessor(
                               f, Offset + OffsetInWrapper, Append(path, i))>>
                     ELSE <<>>
         IN  here \o populateHeaderForWrappedAccessors_Shallow(
                        Wrapper, Offset, path, i + 1)

\* Mutant: the offset of the enclosing wrapper is not added.
RECURSIVE populateHeaderForWrappedAccessors_Relative(_, _, _, _)
populateHeaderForWrappedAccessors_Relative(Wrapper, Offset, path, i) ==
    IF i > Len(Wrapper.fields) THEN <<>>
    ELSE LET f == Wrapper.fields[i]
             p == Append(path, i)
             OffsetInWrapper ==
                 getFieldOffset(HeaderOf(Wrapper), Wrapper.fields, i) \div 8
             here == IF isStructureOrClassType(f)
                     THEN IF isSyclAccessorType(f)
                          THEN <<populateHeaderForAccessor(f, OffsetInWrapper, p)>>
                          ELSE populateHeaderForWrappedAccessors_Relative(
                                    f, OffsetInWrapper, p, 1)
                     ELSE <<>>
         IN  here \o populateHeaderForWrappedAccessors_Relative(
                        Wrapper, Offset, path, i + 1)

\* The descriptors of the accessors found in the fields i.. of Wrapper,
\* which lies at byte Offset of the kernel object.
RECURSIVE populateHeaderForWrappedAccessors(_, _, _, _)
populateHeaderForWrappedAccessors(Wrapper, Offset, path, i) ==
    IF i > Len(Wrapper.fields) THEN <<>>
    ELSE LET f == Wrapper.fields[i]
             p == Append(path, i)
             OffsetInWrapper ==
                 getFieldOffset(HeaderOf(Wrapper), Wrapper.fields, i) \div 8
             here == IF isStructureOrClassType(f)
                     THEN IF isSyclAccessorType(f)
                          THEN <<populateHeaderForAccessor(
                                    f, Offset + OffsetInWrapper, p)>>
                          ELSE populateHeaderForWrappedAccessors(
                                    f, Offset + OffsetInWrapper, p, 1)
                     ELSE <<>>
         IN  here \o populateHeaderForWrappedAccessors(Wrapper, Offset, path, i + 1)

\* Mutant: the scalar test comes before the pointer test.
FieldParamDescs_ScalarFirst(KernelObjTy, i) ==
    LET f == KernelObjTy.fields[i]
        Offset == getFieldOffset(0, KernelObjTy.fields, i) \div 8
    IN  IF isSyclAccessorType(f)
        THEN <<populateHeaderForAccessor(f, Offset, <<i>>)>>
        ELSE IF isSyclSamplerType(f)
        THEN <<addParamDesc("kind_sampler", 8, Offset, <<i>>)>>
        ELSE <<addParamDesc("kind_std_layout", getTypeSizeInChars(f), Offset, <<i>>)>>
                \o (IF isStructureOrClassType(f)
                    THEN populateHeaderForWrappedAccessors(f, Offset, <<i>>, 1)
                    ELSE <<>>)

\* The descriptors registered for the top-level field i.
FieldParamDescs(KernelObjTy, i) ==
    LET f == KernelObjTy.fields[i]
        Offset == getFieldOffset(0, KernelObjTy.fields, i) \div 8
    IN  IF isSyclAccessorType(f)
        THEN <<populateHeaderForAccessor(f, Offset, <<i>>)>>
        ELSE IF isSyclSamplerType(f)
        THEN <<addParamDesc("kind_sampler", 8, Offset, <<i>>)>>
        ELSE IF isPointerType(f)
        THEN <<addParamDesc("kind_pointer", getTypeSizeInChars(f), Offset, <<i>>)>>
        ELSE <<addParamDesc("kind_std_layout", getTypeSizeInChars(f), Offset, <<i>>)>>
                \o (IF isStructureOrClassType(f)
                    THEN populateHeaderForWrappedAccessors(f, Offset, <<i>>, 1)
                    ELSE <<>>)

RECURSIVE populateIntHeaderFrom(_, _)
populateIntHeaderFrom(KernelObjTy, i) ==
    IF i > Len(KernelObjTy.fields) THEN <<>>
    ELSE FieldParamDescs(KernelObjTy, i) \o populateIntHeaderFrom(KernelObjTy, i + 1)

\* startKernel followed by the addParamDesc calls: the new KernelDesc.
populateIntHeader(Name, NameType, KernelObjTy) ==
    [Name |-> Name, NameType |-> NameType,
     Params |-> populateIntHeaderFrom(KernelObjTy, 1)]

(***************************************************************************)
(* CreateOpenCLKernelDeclaration: the entry point's declaration.           *)
(***************************************************************************)
\* The ParmVarDecls: parameter number i (0-based, setScopeInfo(0, i)) has the
\* type and the name of slot i.
RECURSIVE ParmVarDeclsFrom(_, _)
ParmVarDeclsFrom(ParamDescs, i) ==
    IF i >= Len(ParamDescs) THEN <<>>
    ELSE <<[ty |-> ParamDescs[i + 1].ty, src |-> ParamDescs[i + 1].src, index |-> i]>>
            \o ParmVarDeclsFrom(ParamDescs, i + 1)

CreateOpenCLKernelDeclaration(Name, ParamDescs) ==
    [Name |-> Name, RetTy |-> "void", CC |-> "CC_OpenCLKernel",
     Params |-> ParmVarDeclsFrom(ParamDescs, 0),
     Attrs |-> {"SYCLDevice", "OpenCLKernel", "AsmLabel", "Artificial"}]

(***************************************************************************)
(* CreateOpenCLKernelBody: the entry point's body.                         *)
(* The traversal state is [cur, stmts, difference_type]: cur is the        *)
(* position of the iterator KernelFuncParam in the parameter list          *)
(* (0-based), stmts the statements pushed to BodyStmts, difference_type    *)
(* the width in bits of the iterator's difference type in the build.  A    *)
(* statement is [op, field, params]: the field it initializes and the      *)
(* parameter positions it reads.                                           *)
(***************************************************************************)
\* The widths of std::iterator_traits<ParmVarDecl **>::difference_type
\* (ptrdiff_t) on the hosts the compiler is built for: the width of
\* unsigned, and twice that width.
DifferenceTypes == {UnsignedBits, 2 * UnsignedBits}

\* unsigned NumParams; std::advance(KernelFuncParam, NumParams - 1): the
\* distance NumParams - 1 is computed on the bits of unsigned and converted
\* to the difference type.  For NumParams = 0 it is the largest unsigned
\* value: this is -1 in a difference type of the same width, and stays the
\* largest unsigned value in a wider one, which takes the iterator far past
\* the end of the parameters (undefined behaviour).
AdvanceDistance(NumParams, difference_type) ==
    LET n == (NumParams - 1) % (2 ^ UnsignedBits)
    IN  IF n >= 2 ^ (difference_type - 1) THEN n - 2 ^ difference_type ELSE n

Stmt(op, field, params) == [op |-> op, field |-> field, params |-> params]

\* The positions KFP visits: NumParams positions starting at the cursor.
RECURSIVE ParamDREsFrom(_, _, _)
ParamDREsFrom(cur, NumParams, I) ==
    IF I >= NumParams THEN <<>>
    ELSE <<cur + I>> \o ParamDREsFrom(cur, NumParams, I + 1)

\* Mutant: the cursor is advanced by NumParams instead of NumParams - 1.
getExprForSpecialSYCLObj_AdvanceAll(st, f, path) ==
    LET NumParams == getNumParams(f)
    IN  [st EXCEPT
           !.cur   = @ + NumParams,
           !.stmts = Append(@, Stmt("init", path,
                                    ParamDREsFrom(st.cur, NumParams, 0)))]

\* Pushes the call of __init on the special object f with the NumParams
\* parameters at the cursor, and advances the cursor by NumParams - 1.
getExprForSpecialSYCLObj(st, f, path) ==
    LET NumParams == getNumParams(f)
    IN  [st EXCEPT
           !.cur   = @ + AdvanceDistance(NumParams, st.difference_type),
           !.stmts = Append(@, Stmt("init", path,
                                    ParamDREsFrom(st.cur, NumParams, 0)))]

\* Initializes the accessors found in the fields i.. of the wrapper at path.
RECURSIVE getExprForWrappedAccessorInit(_, _, _, _)
getExprForWrappedAccessorInit(st, flds, path, i) ==
    IF i > Len(flds) THEN st
    ELSE LET f == flds[i]
             p == Append(path, i)
             st1 == IF isStructureOrClassType(f)
                    THEN IF isSyclAccessorType(f)
                         THEN getExprForSpecialSYCLObj(
                                 [st EXCEPT !.cur = @ + 1], f, p)
                         ELSE getExprForWrappedAccessorInit(st, f.fields, p, 1)
                    ELSE st
         IN  getExprForWrappedAccessorInit(st1, flds, path, i + 1)

\* Mutant: the accessors of a wrapper are initialized before the wrapper is
\* assigned.
InitField_NestedFirst(st, KernelObj, i) ==
    LET f == KernelObj.fields[i]
    IN  IF isSyclAccessorType(f) \/ isSyclSamplerType(f)
        THEN getExprForSpecialSYCLObj(st, f, <<i>>)
        ELSE LET st2 == IF hasCXXRecordDecl(f)
                        THEN getExprForWrappedAccessorInit(st, f.fields, <<i>>, 1)
                        ELSE st
             IN  [st2 EXCEPT
                    !.stmts = Append(@, Stmt("assign", <<i>>, <<st.cur>>))]

\* The statements for the top-level field i; the caller then steps the cursor.
InitField(st, KernelObj, i) ==
    LET f == KernelObj.fields[i]
    IN  IF isSyclAccessorType(f) \/ isSyclSamplerType(f)
        THEN getExprForSpecialSYCLObj(st, f, <<i>>)
        ELSE LET st2 == [st EXCEPT
                           !.stmts = Append(@, Stmt("assign", <<i>>, <<st.cur>>))]
             IN  IF hasCXXRecordDecl(f)
                 THEN getExprForWrappedAccessorInit(st2, f.fields, <<i>>, 1)
                 ELSE st2

RECURSIVE InitFieldsFrom(_, _, _)
InitFieldsFrom(st, KernelObj, i) ==
    IF i > Len(KernelObj.fields) THEN st
    ELSE LET st1 == InitField(st, KernelObj, i)
         IN  InitFieldsFrom([st1 EXCEPT !.cur = @ + 1], KernelObj, i + 1)

\* [stmts, cursor]: the body, and where KernelFuncParam ends.  param_begin()
\* of a declaration without parameters is null and the field loop is skipped.
CreateOpenCLKernelBody(KernelObj, KernelDecl, difference_type) ==
    LET st0 == [cur |-> 0, stmts |-> <<Stmt("decl", <<>>, <<>>)>>,
                difference_type |-> difference_type]
        st1 == IF Len(KernelDecl.Params) > 0
               THEN InitFieldsFrom(st0, KernelObj, 1)
               ELSE st0
    IN  [stmts  |-> Append(st1.stmts, Stmt("callerbody", <<>>, <<>>)),
         cursor |-> st1.cur]

(***************************************************************************)
(* State.                                                                  *)
(***************************************************************************)
VARIABLES
    pc,            \* "sema": kernels are being constructed; "aborted": an
                   \* llvm_unreachable was reached; "emitted": emit has
                   \* written the header; "emit_failed": emit wrote nothing
    EmitRet,       \* what emit(IntHeaderName) returned, "none" before the call
    errs,          \* the lines written to llvm::errs()
    KernelDescs,   \* SYCLIntegrationHeader::KernelDescs, the registry
    OpenCLKernels, \* the entry points added to the translation unit, in
                   \* creation order; function k is the k-th of them
    SyclKernels,   \* Sema::SyclKernels(): the functions MarkDevice starts from
    SemaDiags,     \* the diagnostics of kernel construction, in order
    Header,        \* the integration header written by emit
    Decls,         \* the functions of the translation unit, see FuncDecl
    SYCLAllowFuncPtr, \* the language option of that name
    SYCLCG,        \* the call graph: function -> its direct callees, in call order
    ReqdSubGroupSize, \* function -> the IntelReqdSubGroupSize attribute it
                   \* carries, NoAttr when it has none
    InvalidDecls,  \* the functions marked by setInvalidDecl
    KernelSet,     \* MarkDeviceFunction::KernelSet
    RecursiveSet,  \* MarkDeviceFunction::RecursiveSet
    CalleeLoops,   \* function -> number of runs of the callee loop of
                   \* CollectKernelSet on it
    DeviceAttr,    \* the functions that carry SYCLDeviceAttr
    AddedSyclKernels, \* function -> number of AddSyclKernel calls MarkDevice
                   \* made for it
    Traversed,     \* function -> number of traversals of its body by the
                   \* Marker
    MarkDiags,     \* the diagnostics MarkDevice reported
    mpc,           \* MarkDevice: "collect": in the loop over SyclKernels;
                   \* "done": MarkDevice has returned
    mk             \* the position in SyclKernels the loop is at

sigVars == <<pc, EmitRet, errs, KernelDescs, OpenCLKernels, SyclKernels, SemaDiags,
            Header>>

markVars == <<Decls, SYCLAllowFuncPtr, SYCLCG, ReqdSubGroupSize, InvalidDecls,
              KernelSet, RecursiveSet, CalleeLoops, DeviceAttr, AddedSyclKernels,
              Traversed, MarkDiags, mpc, mk>>

vars == <<sigVars, markVars>>

(***************************************************************************)
(* Kernel name types.  A type is [decl, ptr, args]: the record it names    *)
(* ("" for a type that is no record, such as int), the number of pointer   *)
(* levels around it, and, for a class template specialization, its         *)
(* template arguments.  A template argument is of kind "type", "pack" (its *)
(* elements are arguments again) or "integral".                            *)
(***************************************************************************)
Type(decl, ptr, args) == [decl |-> decl, ptr |-> ptr, args |-> args]

ClassType(decl) == Type(decl, 0, <<>>)

PointerTo(T) == [T EXCEPT !.ptr = @ + 1]

IntType == Type("", 0, <<>>)

TemplateArg(kind, ty, pack) == [kind |-> kind, ty |-> ty, pack |-> pack]

TypeArg(T) == TemplateArg("type", T, <<>>)

IntegralArg == TemplateArg("integral", IntType, <<>>)

PackArg(elems) == TemplateArg("pack", IntType, elems)

\* A declaration context: a namespace (name "" for an anonymous one), a
\* function or a record.
NamespaceDecl(name) == [kind |-> "namespace", name |-> name]

FunctionContext == [kind |-> "function", name |-> "main"]

RecordContext == [kind |-> "record", name |-> "Outer"]

\* A record or class template declaration: whether it is a class template,
\* whether its definition is complete, and its declaration contexts from
\* the innermost one out to (excluding) the translation unit.
TagDecl(template, complete, contexts) ==
    [template |-> template, complete |-> complete, contexts |-> contexts]

\* The declarations of the translation unit that kernel names are made of.
TypeDecls ==
    [d \in {"KN1", "KN2", "A", "B", "L", "I", "N", "U", "S", "T", "M"} |->
        CASE d \in {"KN1", "KN2"} -> TagDecl(FALSE, FALSE, <<>>)
          [] d = "A" -> TagDecl(FALSE, TRUE, <<>>)
          [] d = "B" -> TagDecl(FALSE, TRUE,
                                <<NamespaceDecl("inner"), NamespaceDecl("outer")>>)
          [] d = "L" -> TagDecl(FALSE, TRUE, <<FunctionContext>>)
          [] d = "I" -> TagDecl(FALSE, FALSE, <<FunctionContext>>)
          [] d = "N" -> TagDecl(FALSE, TRUE, <<RecordContext, NamespaceDecl("outer")>>)
          [] d = "U" -> TagDecl(FALSE, TRUE, <<NamespaceDecl("")>>)
          [] d = "S" -> TagDecl(TRUE, TRUE, <<>>)
          [] d = "T" -> TagDecl(TRUE, FALSE, <<NamespaceDecl("outer")>>)
          [] d = "M" -> TagDecl(TRUE, TRUE, <<RecordContext>>)]

KN1 == ClassType("KN1")

KN2 == ClassType("KN2")

\* The mangled name of the kernel name type.
constructKernelName(KernelNameType) == <<"_ZTS", KernelNameType>>

\* The kernel name types (first template argument of the kernel caller).
NameTypes == {KN1, KN2}

(***************************************************************************)
(* Sema::ConstructOpenCLKernel for a kernel caller whose parameter has the *)
(* type LE and whose first template argument is KernelNameType.            *)
(***************************************************************************)
\* The entry point made for the kernel object LE under the name Name: its
\* declaration, its body, where the parameter cursor ended, and LE itself.
OpenCLKernelOf(LE, Name, difference_type) ==
    LET OpenCLKernel == CreateOpenCLKernelDeclaration(Name, buildArgTys(LE).ParamDescs)
        OpenCLKernelBody == CreateOpenCLKernelBody(LE, OpenCLKernel, difference_type)
    IN  [decl   |-> OpenCLKernel,
         body   |-> OpenCLKernelBody.stmts,
         cursor |-> OpenCLKernelBody.cursor,
         obj    |-> LE]

\* When buildArgTys reaches llvm_unreachable, either the process aborts
\* there, or (undefined behaviour of the build without assertions) the
\* construction goes on with every unsupported field handled as by the
\* branch before the llvm_unreachable of each loop.
ConstructOpenCLKernel(LE, KernelNameType) ==
    /\ pc = "sema"
    /\ LET built == buildArgTys(LE)
           Name == constructKernelName(KernelNameType)
       IN  \/ /\ ~built.ok
              /\ pc' = "aborted"
              /\ SemaDiags' = SemaDiags \o built.diags
              /\ UNCHANGED <<KernelDescs, OpenCLKernels, SyclKernels, Header,
                             DeviceAttr>>
           \/ /\ KernelDescs' =
                    Append(KernelDescs, populateIntHeader(Name, KernelNameType, LE))
              /\ \E difference_type \in DifferenceTypes :
                    OpenCLKernels' =
                       Append(OpenCLKernels, OpenCLKernelOf(LE, Name, difference_type))
              /\ SyclKernels' = Append(SyclKernels, Len(OpenCLKernels) + 1)
              /\ DeviceAttr' = DeviceAttr \cup {Len(OpenCLKernels) + 1}
              /\ SemaDiags' = SemaDiags \o built.diags
              /\ UNCHANGED <<pc, Header>>
    /\ UNCHANGED <<Decls, SYCLAllowFuncPtr, SYCLCG, ReqdSubGroupSize, InvalidDecls,
                   KernelSet, RecursiveSet, CalleeLoops, AddedSyclKernels,
                   Traversed, MarkDiags, mpc, mk, EmitRet, errs>>

NoHeader ==
    [forward_decls |-> <<>>, kernel_names |-> <<>>, signature_lines |-> <<>>,
     kernel_signature_start |-> <<>>, KernelInfo |-> <<>>]

\* Nothing has been constructed, and MarkDevice has not started.
Init ==
    /\ pc = "sema"
    /\ EmitRet = "none"
    /\ errs = <<>>
    /\ KernelDescs = <<>>
    /\ OpenCLKernels = <<>>
    /\ SyclKernels = <<>>
    /\ SemaDiags = <<>>
    /\ Header = NoHeader
    /\ Decls = <<>>
    /\ SYCLAllowFuncPtr = FALSE
    /\ SYCLCG = <<>>
    /\ ReqdSubGroupSize = <<>>
    /\ InvalidDecls = {}
    /\ KernelSet = {}
    /\ RecursiveSet = {}
    /\ CalleeLoops = <<>>
    /\ DeviceAttr = {}
    /\ AddedSyclKernels = <<>>
    /\ Traversed = <<>>
    /\ MarkDiags = {}
    /\ mpc = "collect"
    /\ mk = 1

(***************************************************************************)
(* SYCLIntegrationHeader::emit: the integration header.  The text of the   *)
(* kernel_signatures initializer is kept line by line ("comment": the      *)
(* "//--- <name>" line that opens a kernel's region, "entry": one          *)
(* { kind, info, offset } initializer, "blank"); the arrays a consumer     *)
(* sees are read back from the lines.                                      *)
(***************************************************************************)
Line(line, name, kind, info, offset) ==
    [line |-> line, name |-> name, kind |-> kind, info |-> info, offset |-> offset]

\* paramKind2Str
paramKind2Str(K) ==
    CASE K = "kind_accessor"   -> "kind_accessor"
      [] K = "kind_std_layout" -> "kind_std_layout"
      [] K = "kind_sampler"    -> "kind_sampler"
      [] K = "kind_pointer"    -> "kind_pointer"
      [] OTHER                 -> "<ERROR>"

RECURSIVE ParamLinesFrom(_, _)
ParamLinesFrom(Params, j) ==
    IF j > Len(Params) THEN <<>>
    ELSE <<Line("entry", <<>>, paramKind2Str(Params[j].Kind),
                Params[j].Info, Params[j].Offset)>>
            \o ParamLinesFrom(Params, j + 1)

\* The lines written for the kernels I.. : the region of each kernel is its
\* name comment, one entry per parameter descriptor, and an empty line.
RECURSIVE SignatureLinesFrom(_, _)
SignatureLinesFrom(Descs, I) ==
    IF I > Len(Descs) THEN <<>>
    ELSE <<Line("comment", Descs[I].Name, "", 0, 0)>>
            \o ParamLinesFrom(Descs[I].Params, 1)
            \o <<Line("blank", <<>>, "", 0, 0)>>
            \o SignatureLinesFrom(Descs, I + 1)

\* Mutant: the start of the next kernel leaves no room for a sentinel.
RECURSIVE SignatureStartsFrom_NoGap(_, _, _)
SignatureStartsFrom_NoGap(Descs, I, CurStart) ==
    IF I > Len(Descs) THEN <<>>
    ELSE <<CurStart>>
            \o SignatureStartsFrom_NoGap(Descs, I + 1, CurStart + Len(Descs[I].Params))

\* kernel_signature_start: CurStart += K.Params.size() + 1 after each kernel.
RECURSIVE SignatureStartsFrom(_, _, _)
SignatureStartsFrom(Descs, I, CurStart) ==
    IF I > Len(Descs) THEN <<>>
    ELSE <<CurStart>>
            \o SignatureStartsFrom(Descs, I + 1, CurStart + Len(Descs[I].Params) + 1)

\* Mutant: the base of the next specialization skips one more entry.
RECURSIVE KernelInfoFrom_Gap(_, _, _)
KernelInfoFrom_Gap(Descs, I, CurStart) ==
    IF I > Len(Descs) THEN <<>>
    ELSE LET N == Len(Descs[I].Params)
         IN  <<[NameType |-> Descs[I].NameType, getName |-> Descs[I].Name,
                getNumParams |-> N, Base |-> CurStart]>>
                \o KernelInfoFrom_Gap(Descs, I + 1, CurStart + N + 1)

\* The KernelInfo specializations: getParamDesc(i) returns
\* kernel_signatures[i + Base]; CurStart += N after each kernel.
RECURSIVE KernelInfoFrom(_, _, _)
KernelInfoFrom(Descs, I, CurStart) ==
    IF I > Len(Descs) THEN <<>>
    ELSE LET N == Len(Descs[I].Params)
         IN  <<[NameType |-> Descs[I].NameType, getName |-> Descs[I].Name,
                getNumParams |-> N, Base |-> CurStart]>>
                \o KernelInfoFrom(Descs, I + 1, CurStart + N)

(***************************************************************************)
(* SYCLIntegrationHeader::emitFwdDecl: the forward declaration of D,       *)
(* wrapped into its namespaces.  The text is kept as [decl, template,      *)
(* namespaces]: the declaration printed and the names of the namespaces    *)
(* opened around it (and closed after it), outermost first.                *)
(***************************************************************************)
\* The namespaces around a declaration: the contexts i.. up to the first
\* one that is no namespace, outermost first.
RECURSIVE NamespacesFrom(_, _)
NamespacesFrom(contexts, i) ==
    IF i > Len(contexts) \/ contexts[i].kind # "namespace" THEN <<>>
    ELSE NamespacesFrom(contexts, i + 1) \o <<contexts[i].name>>

\* Mutant: the error does not depend on the definition being complete.
NotTopLevel_Incomplete(D) ==
    LET contexts == TypeDecls[D].contexts
        n == Len(NamespacesFrom(contexts, 1))
    IN  n < Len(contexts)

\* The walk over the contexts stops at one that is neither a namespace nor
\* the translation unit, and the record is completely defined.
NotTopLevel(D) ==
    LET contexts == TypeDecls[D].contexts
        n == Len(NamespacesFrom(contexts, 1))
    IN  n < Len(contexts) /\ TypeDecls[D].complete

\* h = [O, Printed, Diags]: the declarations written, the set Printed, the
\* diagnostics reported.
emitFwdDecl(h, D) ==
    [h EXCEPT
       !.O = Append(@, [decl |-> D, template |-> TypeDecls[D].template,
                        namespaces |-> NamespacesFrom(TypeDecls[D].contexts, 1)]),
       !.Diags = IF NotTopLevel(D)
                 THEN Append(@, [id |-> "err_sycl_kernel_name_class_not_top_level",
                                 loc |-> <<"decl", D>>])
                 ELSE @]

(***************************************************************************)
(* SYCLIntegrationHeader::emitForwardClassDecls.                           *)
(***************************************************************************)
\* Mutant: a declaration is printed whether or not it is in Printed.
PrintOnce_Always(h, D) ==
    emitFwdDecl([h EXCEPT !.Printed = @ \cup {D}], D)

\* if (Printed.insert(D).second) emitFwdDecl(O, D)
PrintOnce(h, D) ==
    IF D \in h.Printed THEN h
    ELSE emitFwdDecl([h EXCEPT !.Printed = @ \cup {D}], D)

RECURSIVE emitForwardClassDecls(_, _)
RECURSIVE ForwardPack(_, _, _)
RECURSIVE ForwardArgs(_, _, _)
\* The loop over the elements i.. of a pack.
ForwardPack(h, Pack, i) ==
    IF i > Len(Pack) THEN h
    ELSE ForwardPack(IF Pack[i].kind = "type"
                     THEN emitForwardClassDecls(h, Pack[i].ty)
                     ELSE h,
                     Pack, i + 1)

\* The loop over the template arguments I.. .
ForwardArgs(h, Args, I) ==
    IF I > Len(Args) THEN h
    ELSE LET Arg == Args[I]
             h1 == CASE Arg.kind = "type" -> emitForwardClassDecls(h, Arg.ty)
                     [] Arg.kind = "pack" -> ForwardPack(h, Arg.pack, 1)
                     [] OTHER -> h
         IN  ForwardArgs(h1, Args, I + 1)

\* Mutant: the template is declared before its arguments are searched.
emitForwardClassDecls_OwnerFirst(h, T) ==
    IF T.decl = "" THEN h
    ELSE IF TypeDecls[T.decl].template
         THEN ForwardArgs(PrintOnce(h, T.decl), T.args, 1)
         ELSE PrintOnce(h, T.decl)

\* The pointer levels are peeled off; RD is T.decl.
emitForwardClassDecls(h, T) ==
    IF T.decl = "" THEN h
    ELSE IF TypeDecls[T.decl].template
         THEN PrintOnce(ForwardArgs(h, T.args, 1), T.decl)
         ELSE PrintOnce(h, T.decl)

\* The loop of emit over KernelDescs.
RECURSIVE ForwardDeclsFrom(_, _, _)
ForwardDeclsFrom(h, Descs, I) ==
    IF I > Len(Descs) THEN h
    ELSE ForwardDeclsFrom(emitForwardClassDecls(h, Descs[I].NameType), Descs, I + 1)

\* emit(raw_ostream &): what is written to the stream.
emit ==
    /\ pc = "sema"
    /\ pc' = "emitted"
    /\ LET h == ForwardDeclsFrom([O |-> <<>>, Printed |-> {}, Diags |-> <<>>],
                                 KernelDescs, 1)
       IN  /\ Header' =
                 [forward_decls |-> h.O,
                  kernel_names |-> [I \in 1..Len(KernelDescs) |-> KernelDescs[I].Name],
                  signature_lines |-> SignatureLinesFrom(KernelDescs, 1),
                  kernel_signature_start |-> SignatureStartsFrom(KernelDescs, 1, 0),
                  KernelInfo |-> KernelInfoFrom(KernelDescs, 1, 0)]
           /\ SemaDiags' = SemaDiags \o h.Diags
    /\ UNCHANGED <<KernelDescs, OpenCLKernels, SyclKernels>>
    /\ UNCHANGED markVars

\* The header file names and the outcomes of openFileForWrite: "" is no
\* error, anything else the message of the error code.
IntHeaderNames == {"", "kernel.h"}

OpenErrors == {"", "Permission denied"}

\* Mutant: the error of openFileForWrite is reported and the header written.
emitFile_WriteAnyway(IntHeaderName, EC) ==
    /\ emit
    /\ EmitRet' = (IntHeaderName # "" /\ EC = "")
    /\ errs' = IF IntHeaderName # "" /\ EC # ""
               THEN Append(errs, <<"Error: ", EC>>) ELSE errs

\* bool emit(const StringRef &IntHeaderName); EC is what openFileForWrite
\* returns for the name.
emitFile(IntHeaderName, EC) ==
    IF IntHeaderName = ""
    THEN /\ pc = "sema"
         /\ pc' = "emit_failed"
         /\ EmitRet' = FALSE
         /\ UNCHANGED <<errs, KernelDescs, OpenCLKernels, SyclKernels, SemaDiags,
                        Header>>
         /\ UNCHANGED markVars
    ELSE IF EC # ""
    THEN /\ pc = "sema"
         /\ pc' = "emit_failed"
         /\ errs' = Append(errs, <<"Error: ", EC>>)
         /\ EmitRet' = FALSE
         /\ UNCHANGED <<KernelDescs, OpenCLKernels, SyclKernels, SemaDiags, Header>>
         /\ UNCHANGED markVars
    ELSE /\ emit
         /\ EmitRet' = TRUE
         /\ UNCHANGED errs

\* A kernel object without fields.
StatelessKernelObj == [lambda |-> TRUE, fields |-> <<>>]

\* The kernel objects Spec constructs kernels from: no field; a scalar; an
\* accessor and a pointer; a wrapper holding an accessor.
SampleKernelObjs ==
    {[lambda |-> TRUE, fields |-> <<>>],
     [lambda |-> TRUE, fields |-> <<Fld("scalar", 0, TRUE, <<>>)>>],
     [lambda |-> TRUE, fields |-> <<Fld("accessor", 1, TRUE, <<>>),
                                    Fld("pointer", 0, TRUE, <<>>)>>],
     [lambda |-> FALSE, fields |->
         <<Fld("struct", 0, TRUE, <<Fld("accessor", 1, TRUE, <<>>)>>)>>]}

\* A translation unit: kernels are constructed, then the header is emitted.
Next ==
    \/ /\ Len(OpenCLKernels) < MaxKernels
       /\ \E LE \in SampleKernelObjs, NT \in NameTypes : ConstructOpenCLKernel(LE, NT)
    \/ \E IntHeaderName \in IntHeaderNames, EC \in OpenErrors :
          emitFile(IntHeaderName, EC)

Spec == Init /\ [][Next]_vars

\* One kernel object of any shape within the bounds.
NextSig ==
    /\ Len(OpenCLKernels) < 1
    /\ \E LE \in KernelObjs : ConstructOpenCLKernel(LE, KN1)

SpecSig == Init /\ [][NextSig]_vars

(***************************************************************************)
(* SpecZero: one kernel object whose fields are drawn from special objects *)
(* with an __init method without parameters and with one parameter,        *)
(* scalars, and wrappers of such special objects.                          *)
(***************************************************************************)
ZeroInitFields ==
    LET acc0 == Fld("accessor", 0, TRUE, <<>>)
        acc1 == Fld("accessor", 1, TRUE, <<>>)
    IN  {acc0, acc1, Fld("sampler", 0, TRUE, <<>>), Fld("scalar", 0, TRUE, <<>>),
         Fld("struct", 0, TRUE, <<acc0>>), Fld("struct", 0, TRUE, <<acc0, acc1>>)}

ZeroInitKernelObjs ==
    {[lambda |-> TRUE, fields |-> fs] :
        fs \in UNION {[1..n -> ZeroInitFields] : n \in 1..MaxNodes}}

NextZero ==
    /\ Len(OpenCLKernels) < 1
    /\ \E LE \in ZeroInitKernelObjs : ConstructOpenCLKernel(LE, KN1)

SpecZero == Init /\ [][NextZero]_vars

(***************************************************************************)
(* SpecInfo: one kernel object with one or two accessors of any access     *)
(* target of the enumeration and of 1 to MaxDims dimensions.               *)
(***************************************************************************)
InfoFields ==
    {AccessorFld(1, Target, Dims) :
        Target \in global_buffer..image_array, Dims \in 1..MaxDims}

InfoKernelObjs ==
    {[lambda |-> TRUE, fields |-> fs] :
        fs \in UNION {[1..n -> InfoFields] : n \in 1..2}}

NextInfo ==
    /\ Len(OpenCLKernels) < 1
    /\ \E LE \in InfoKernelObjs : ConstructOpenCLKernel(LE, KN1)

SpecInfo == Init /\ [][NextInfo]_vars

(***************************************************************************)
(* SpecFwd: two stateless kernels whose name types are drawn from the      *)
(* types of nesting depth MaxTypeDepth, then the header is emitted.        *)
(***************************************************************************)
LeafTypes ==
    {IntType, ClassType("A"), PointerTo(ClassType("A")), ClassType("B"),
     ClassType("L"), ClassType("I"), ClassType("N"), ClassType("U"),
     Type("M", 0, <<TypeArg(IntType)>>)}

\* S<X> and T<3, X, A...>: a type argument, and a pack after an integral
\* argument.
FwdNameTypes[d \in 0..MaxTypeDepth] ==
    IF d = 0 THEN LeafTypes
    ELSE LeafTypes
           \cup {Type("S", 0, <<TypeArg(X)>>) : X \in FwdNameTypes[d - 1]}
           \cup {Type("T", 0, <<IntegralArg,
                                 PackArg(<<TypeArg(X), IntegralArg,
                                           TypeArg(PointerTo(ClassType("A")))>>)>>) :
                    X \in FwdNameTypes[d - 1]}
           \cup {PointerTo(PointerTo(Type("S", 0, <<TypeArg(ClassType("B"))>>)))}

NextFwd ==
    \/ /\ Len(OpenCLKernels) < 2
       /\ \E NT \in FwdNameTypes[MaxTypeDepth] :
             ConstructOpenCLKernel(StatelessKernelObj, NT)
    \/ \E IntHeaderName \in IntHeaderNames, EC \in OpenErrors :
          emitFile(IntHeaderName, EC)

SpecFwd == Init /\ [][NextFwd]_vars

(***************************************************************************)
(* The translation unit MarkDevice works on.  A function is a number of    *)
(* Funcs; Decls gives for each whether it is defined, whether it is a      *)
(* virtual method, its return type and the sites of its body in source     *)
(* order.  A site is one node the Marker has a Visit method for:           *)
(*   "call"      a call with the direct callee `callee`, `ty` the type of  *)
(*               its argument                                              *)
(*   "callptr"   a call without a direct callee                            *)
(*   "construct" a construction by the constructor `callee`; `dtor` is the *)
(*               user-declared destructor of the class, 0 without one      *)
(*   "new"       a new-expression; `callee` is its operator new (0: none), *)
(*               `flag` says that it is a replaceable global allocation    *)
(*               function                                                  *)
(*   "vardecl"   a variable declaration of type `ty`                       *)
(*   "declref", "member"  a reference to a variable of type `ty`; `flag`   *)
(*               is its storage: "local", "global", "constglobal",         *)
(*               "staticmember", "conststaticmember", "staticlocal"        *)
(*   "typeid", "dynamic_cast", "throw", "catch", "try", "sehtry",          *)
(*   "gccasm", "msasm"                                                     *)
(* Types are "int", "vla" (a variable length array) and "polymorphic" (a   *)
(* class with virtual functions).                                          *)
(***************************************************************************)
Funcs == 1..MaxFuncs

Site(kind, callee, dtor, ty, flag) ==
    [kind |-> kind, callee |-> callee, dtor |-> dtor, ty |-> ty, flag |-> flag]

CallSite(callee) == Site("call", callee, 0, "int", "")

PlainSite(kind) == Site(kind, 0, 0, "int", "")

FuncDecl(defined, virtual, ret, body) ==
    [defined |-> defined, virtual |-> virtual, ret |-> ret, body |-> body]

(***************************************************************************)
(* The programs SpecMark draws from: MaxFuncs functions, the first one or  *)
(* two of them kernel entry points, and at most MaxCalls direct calls.     *)
(* A program is an increasing list of call numbers; call number e is the   *)
(* call of EdgeCallee(e) in the body of EdgeCaller(e).                     *)
(***************************************************************************)
EdgeCaller(e) == ((e - 1) \div MaxFuncs) + 1

EdgeCallee(e) == ((e - 1) % MaxFuncs) + 1

\* The programs of at most k calls.
RECURSIVE CallLists(_)
CallLists(k) ==
    IF k = 0 THEN {<<>>}
    ELSE LET shorter == CallLists(k - 1)
         IN  shorter \cup
             {Append(p[1], p[2]) :
                p \in {q \in shorter \X (1..(MaxFuncs * MaxFuncs)) :
                          /\ Len(q[1]) = k - 1
                          /\ (q[1] = <<>> \/ q[1][Len(q[1])] < q[2])}}

Programs == CallLists(MaxCalls)

RECURSIVE CalleesFrom(_, _, _)
CalleesFrom(calls, f, i) ==
    IF i > Len(calls) THEN <<>>
    ELSE (IF EdgeCaller(calls[i]) = f THEN <<EdgeCallee(calls[i])>> ELSE <<>>)
            \o CalleesFrom(calls, f, i + 1)

\* The declarations of a program of calls: every function is defined and
\* its body holds its calls.
DeclsOf(calls) ==
    [f \in Funcs |->
        LET callees == CalleesFrom(calls, f, 1)
        IN  FuncDecl(TRUE, FALSE, "int",
                     [i \in 1..Len(callees) |-> CallSite(callees[i])])]

\* The direct callees of the call expressions i.. of a body.
RECURSIVE DirectCallees(_, _)
DirectCallees(body, i) ==
    IF i > Len(body) THEN <<>>
    ELSE (IF body[i].kind = "call" THEN <<body[i].callee>> ELSE <<>>)
            \o DirectCallees(body, i + 1)

\* CallGraph::addToCallGraph: the node of every function with the callees
\* of the call expressions of its body.
addToCallGraph(decls) ==
    [f \in Funcs |->
        IF decls[f].defined THEN DirectCallees(decls[f].body, 1) ELSE <<>>]

(***************************************************************************)
(* MarkDeviceFunction::CollectKernelSet.  st = [KernelSet, RecursiveSet,   *)
(* Loops]; VisitedSet is passed by value: the callees on the current path. *)
(* Loops counts, per function, the runs of the loop over its callees.      *)
(***************************************************************************)
RECURSIVE CollectKernelSet_PathOnly(_, _, _)
RECURSIVE CollectCallees_PathOnly(_, _, _, _)
CollectCallees_PathOnly(st, CalleeNode, VisitedSet, i) ==
    IF i > Len(SYCLCG[CalleeNode]) THEN st
    ELSE LET Callee == SYCLCG[CalleeNode][i]
             st1 == IF Callee \in VisitedSet
                    THEN [st EXCEPT !.RecursiveSet = @ \cup {Callee, CalleeNode}]
                    ELSE CollectKernelSet_PathOnly(st, Callee, VisitedSet \cup {Callee})
         IN  CollectCallees_PathOnly(st1, CalleeNode, VisitedSet, i + 1)

\* Mutant: a function that is in KernelSet is descended into again.
CollectKernelSet_PathOnly(st, CalleeNode, VisitedSet) ==
    CollectCallees_PathOnly(
        [st EXCEPT !.KernelSet = @ \cup {CalleeNode},
                   !.Loops = [@ EXCEPT ![CalleeNode] = @ + 1]],
        CalleeNode, VisitedSet, 1)

RECURSIVE CollectKernelSet(_, _, _)
RECURSIVE CollectCallees(_, _, _, _)
\* The loop over the callees i.. of CalleeNode.
CollectCallees(st, CalleeNode, VisitedSet, i) ==
    IF i > Len(SYCLCG[CalleeNode]) THEN st
    ELSE LET Callee == SYCLCG[CalleeNode][i]
             st1 == IF Callee \in VisitedSet
                    THEN [st EXCEPT !.RecursiveSet = @ \cup {Callee, CalleeNode}]
                    ELSE CollectKernelSet(st, Callee, VisitedSet \cup {Callee})
         IN  CollectCallees(st1, CalleeNode, VisitedSet, i + 1)

\* Mutant: a function met again is taken for a function on the current path.
CollectKernelSet_SeenIsRecursive(st, CalleeNode, VisitedSet) ==
    IF CalleeNode \in st.KernelSet
    THEN [st EXCEPT !.RecursiveSet = @ \cup {CalleeNode}]
    ELSE CollectCallees([st EXCEPT !.KernelSet = @ \cup {CalleeNode},
                                   !.Loops = [@ EXCEPT ![CalleeNode] = @ + 1]],
                        CalleeNode, VisitedSet, 1)

CollectKernelSet(st, CalleeNode, VisitedSet) ==
    IF CalleeNode \in st.KernelSet
    THEN st
    ELSE CollectCallees([st EXCEPT !.KernelSet = @ \cup {CalleeNode},
                                   !.Loops = [@ EXCEPT ![CalleeNode] = @ + 1]],
                        CalleeNode, VisitedSet, 1)

(***************************************************************************)
(* MarkDeviceFunction::CollectPossibleKernelAttributes: the attributes of  *)
(* the functions reachable from SYCLKernel, itself included.  An attribute *)
(* object is [fn, size]: the function it was written on and its value;     *)
(* NoAttr stands for a function without the attribute.                     *)
(***************************************************************************)
NoAttr == [fn |-> 0, size |-> 0]

\* The callees i.. of FD that are not in Visited, in call order.
RECURSIVE UnvisitedCallees(_, _, _)
UnvisitedCallees(FD, Visited, i) ==
    IF i > Len(SYCLCG[FD]) THEN <<>>
    ELSE (IF SYCLCG[FD][i] \in Visited THEN <<>> ELSE <<SYCLCG[FD][i]>>)
            \o UnvisitedCallees(FD, Visited, i + 1)

RECURSIVE AttributeWorkList(_, _, _)
AttributeWorkList(WorkList, Visited, Attrs) ==
    IF WorkList = <<>> THEN Attrs
    ELSE LET FD == WorkList[Len(WorkList)]
             Rest == SubSeq(WorkList, 1, Len(WorkList) - 1)
         IN  IF FD \in Visited
             THEN AttributeWorkList(Rest, Visited, Attrs)
             ELSE AttributeWorkList(
                    Rest \o UnvisitedCallees(FD, Visited \cup {FD}, 1),
                    Visited \cup {FD},
                    IF ReqdSubGroupSize[FD] # NoAttr
                    THEN Attrs \cup {ReqdSubGroupSize[FD]}
                    ELSE Attrs)

CollectPossibleKernelAttributes(SYCLKernel) ==
    AttributeWorkList(<<SYCLKernel>>, {}, {})

\* A diagnostic of MarkDevice: its id, the restriction kind, the function
\* and the site (its number in the body) it is reported for, and the
\* function or attribute owner it names.
MarkDiag(id, kind, caller, site, callee) ==
    [id |-> id, kind |-> kind, caller |-> caller, site |-> site, callee |-> callee]

\* Mutant: the first collected attribute replaces the one the kernel has,
\* and only the later ones are compared.
PropagateAttr_Overwrite(SYCLKernel, A, a) ==
    [a EXCEPT !.attr = A]

\* One round of the loop over the collected attributes.  a = [attr,
\* invalid, diags]: the attribute the kernel carries, whether the kernel
\* was marked invalid, the conflicts reported.
PropagateAttr(SYCLKernel, A, a) ==
    IF a.attr # NoAttr
    THEN IF a.attr.size # A.size
         THEN [a EXCEPT
                 !.invalid = TRUE,
                 !.diags = @ \cup
                    {MarkDiag("err_conflicting_sycl_kernel_attributes",
                              "", SYCLKernel, 0, A.fn)}]
         ELSE a
    ELSE [a EXCEPT !.attr = A]

\* The loop over the collected attributes, taken in the order given.
RECURSIVE PropagateAttrs(_, _, _, _)
PropagateAttrs(SYCLKernel, order, i, a) ==
    IF i > Len(order) THEN a
    ELSE PropagateAttrs(SYCLKernel, order, i + 1,
                        PropagateAttr(SYCLKernel, order[i], a))

\* The orders a SmallPtrSet may be iterated in.
Orders(S) ==
    {o \in [1..Cardinality(S) -> S] : \A x \in S : \E i \in DOMAIN o : o[i] = x}

(***************************************************************************)
(* Sema::MarkDevice, the body of the loop over SyclKernels() for the       *)
(* kernel at position mk.                                                  *)
(***************************************************************************)
MarkDeviceKernel ==
    /\ mpc = "collect"
    /\ mk <= Len(SyclKernels)
    /\ LET SYCLKernel == SyclKernels[mk]
           st == CollectKernelSet([KernelSet |-> KernelSet,
                                   RecursiveSet |-> RecursiveSet,
                                   Loops |-> CalleeLoops],
                                  SYCLKernel, {})
           Attrs == CollectPossibleKernelAttributes(SYCLKernel)
       IN  /\ KernelSet' = st.KernelSet
           /\ RecursiveSet' = st.RecursiveSet
           /\ CalleeLoops' = st.Loops
           /\ \E order \in Orders(Attrs) :
                LET a == PropagateAttrs(SYCLKernel, order, 1,
                            [attr |-> ReqdSubGroupSize[SYCLKernel],
                             invalid |-> FALSE, diags |-> {}])
                IN  /\ ReqdSubGroupSize' =
                          [ReqdSubGroupSize EXCEPT ![SYCLKernel] = a.attr]
                    /\ InvalidDecls' =
                          IF a.invalid THEN InvalidDecls \cup {SYCLKernel}
                          ELSE InvalidDecls
                    /\ MarkDiags' = MarkDiags \cup a.diags
    /\ mk' = mk + 1
    /\ UNCHANGED <<Decls, SYCLAllowFuncPtr, SYCLCG, DeviceAttr, AddedSyclKernels,
                   Traversed, mpc>>
    /\ UNCHANGED sigVars

(***************************************************************************)
(* The Visit methods of MarkDeviceFunction.  t = [DeviceAttr, Added,       *)
(* Diags, Traversed]; FD is the function whose body is traversed and i the *)
(* number of the site in it.                                               *)
(***************************************************************************)
\* SemaRef.Diag.
Diag(t, d) == [t EXCEPT !.Diags = @ \cup {d}]

\* Def->addAttr(SYCLDeviceAttr) and AddSyclKernel(Def).
AddDeviceAttr(t, Def) ==
    [t EXCEPT !.DeviceAttr = @ \cup {Def},
              !.Added = [@ EXCEPT ![Def] = @ + 1]]

\* The same, unless Def has the attribute.
TagDevice(t, Def) ==
    IF Def \in t.DeviceAttr THEN t ELSE AddDeviceAttr(t, Def)

\* CheckSYCLType on a type used at site i of FD; Owner is the declaration
\* the type was taken from, 0 for the site itself.
CheckSYCLType(t, Ty, FD, i, Owner) ==
    IF Ty = "vla"
    THEN Diag(t, MarkDiag("err_vla_unsupported", "", FD, i, Owner))
    ELSE IF Ty = "polymorphic"
         THEN Diag(t, MarkDiag("err_sycl_virtual_types", "", FD, i, Owner))
         ELSE t

Restrict(t, kind, FD, i, callee) ==
    Diag(t, MarkDiag("err_sycl_restrict", kind, FD, i, callee))

VisitCallExpr(t, FD, i) ==
    LET s == Decls[FD].body[i]
        t1 == CheckSYCLType(t, s.ty, FD, i, 0)
    IN  IF s.kind = "call"
        THEN LET Callee == s.callee
                 t2 == IF Callee \in RecursiveSet
                       THEN Restrict(t1, "KernelCallRecursiveFunction", FD, i, Callee)
                       ELSE t1
                 t3 == IF Decls[Callee].virtual
                       THEN Restrict(t2, "KernelCallVirtualFunction", FD, i, Callee)
                       ELSE t2
                 t4 == CheckSYCLType(t3, Decls[Callee].ret, FD, i, Callee)
             IN  IF Decls[Callee].defined THEN TagDevice(t4, Callee) ELSE t4
        ELSE IF ~SYCLAllowFuncPtr
             THEN Restrict(t1, "KernelCallFunctionPointer", FD, i, 0)
             ELSE t1

VisitCXXConstructExpr(t, FD, i) ==
    LET s == Decls[FD].body[i]
        t1 == CheckSYCLType(t, s.ty, FD, i, 0)
        t2 == IF Decls[s.callee].defined THEN AddDeviceAttr(t1, s.callee) ELSE t1
    IN  IF s.dtor # 0 /\ Decls[s.dtor].defined
        THEN AddDeviceAttr(t2, s.dtor)
        ELSE t2

VisitCXXNewExpr(t, FD, i) ==
    LET s == Decls[FD].body[i]
    IN  IF s.callee = 0 THEN t
        ELSE IF s.flag = "replaceable"
             THEN Restrict(t, "KernelAllocateStorage", FD, i, s.callee)
             ELSE IF Decls[s.callee].defined
                  THEN TagDevice(t, s.callee)
                  ELSE t

VisitVarDecl(t, FD, i) == CheckSYCLType(t, Decls[FD].body[i].ty, FD, i, 0)

IsConst(s) == s.flag \in {"constglobal", "conststaticmember"}

isStaticDataMember(s) == s.flag \in {"staticmember", "conststaticmember"}

hasGlobalStorage(s) == s.flag # "local"

VisitMemberExpr(t, FD, i) ==
    LET s == Decls[FD].body[i]
    IN  IF ~IsConst(s) /\ isStaticDataMember(s)
        THEN Restrict(t, "KernelNonConstStaticDataVariable", FD, i, 0)
        ELSE t

VisitDeclRefExpr(t, FD, i) ==
    LET s == Decls[FD].body[i]
        t1 == CheckSYCLType(t, s.ty, FD, i, 0)
    IN  IF ~IsConst(s) /\ isStaticDataMember(s)
        THEN Restrict(t1, "KernelNonConstStaticDataVariable", FD, i, 0)
        ELSE IF /\ ~IsConst(s)
                /\ hasGlobalStorage(s)
                /\ s.flag # "staticlocal"
                /\ ~isStaticDataMember(s)
             THEN Restrict(t1, "KernelGlobalVariable", FD, i, 0)
             ELSE t1

\* The restriction kind of the nodes that are diagnosed wherever they stand.
RestrictKindOf(kind) ==
    CASE kind \in {"typeid", "dynamic_cast"} -> "KernelRTTI"
      [] kind \in {"throw", "catch", "try", "sehtry"} -> "KernelUseExceptions"
      [] kind \in {"gccasm", "msasm"} -> "KernelUseAssembly"

\* RecursiveASTVisitor: the Visit method of the site's node class.  Every
\* Visit method returns true, the traversal goes on with the next site.
Visit(t, FD, i) ==
    LET kind == Decls[FD].body[i].kind
    IN  CASE kind \in {"call", "callptr"} -> VisitCallExpr(t, FD, i)
          [] kind = "construct" -> VisitCXXConstructExpr(t, FD, i)
          [] kind = "new" -> VisitCXXNewExpr(t, FD, i)
          [] kind = "vardecl" -> VisitVarDecl(t, FD, i)
          [] kind = "member" -> VisitMemberExpr(t, FD, i)
          [] kind = "declref" -> VisitDeclRefExpr(t, FD, i)
          [] OTHER -> Restrict(t, RestrictKindOf(kind), FD, i, 0)

\* Mutant: a Visit method that reports a diagnostic ends the traversal of
\* the body.
RECURSIVE TraverseStmt_StopAtDiag(_, _, _)
TraverseStmt_StopAtDiag(t, FD, i) ==
    IF i > Len(Decls[FD].body) THEN t
    ELSE LET t1 == Visit(t, FD, i)
         IN  IF t1.Diags # t.Diags THEN t1
             ELSE TraverseStmt_StopAtDiag(t1, FD, i + 1)

RECURSIVE TraverseStmt(_, _, _)
TraverseStmt(t, FD, i) ==
    IF i > Len(Decls[FD].body) THEN t
    ELSE TraverseStmt(Visit(t, FD, i), FD, i + 1)

(***************************************************************************)
(* Sema::MarkDevice, the loop over Marker.KernelSet: every function of the *)
(* set that has a definition gets SYCLDeviceAttr and its body is traversed *)
(* by the Marker.                                                          *)
(***************************************************************************)
\* The elements of a set of functions in increasing order.  The iteration
\* order of a SmallPtrSet is another one; the sets and counts computed by
\* the loop do not depend on it.
RECURSIVE InOrder(_)
InOrder(S) ==
    IF S = {} THEN <<>>
    ELSE LET m == CHOOSE x \in S : \A y \in S : x <= y
         IN  <<m>> \o InOrder(S \ {m})

RECURSIVE TraverseKernelSetFrom(_, _, _)
TraverseKernelSetFrom(t, elts, i) ==
    IF i > Len(elts) THEN t
    ELSE IF ~Decls[elts[i]].defined
         THEN TraverseKernelSetFrom(t, elts, i + 1)
         ELSE TraverseKernelSetFrom(
                TraverseStmt(
                    [TagDevice(t, elts[i]) EXCEPT
                        !.Traversed = [@ EXCEPT ![elts[i]] = @ + 1]],
                    elts[i], 1),
                elts, i + 1)

TraverseKernelSet ==
    /\ mpc = "collect"
    /\ mk > Len(SyclKernels)
    /\ LET t == TraverseKernelSetFrom(
                   [DeviceAttr |-> DeviceAttr, Added |-> AddedSyclKernels,
                    Diags |-> MarkDiags, Traversed |-> Traversed],
                   InOrder(KernelSet), 1)
       IN  /\ DeviceAttr' = t.DeviceAttr
           /\ AddedSyclKernels' = t.Added
           /\ MarkDiags' = t.Diags
           /\ Traversed' = t.Traversed
    /\ mpc' = "done"
    /\ UNCHANGED <<Decls, SYCLAllowFuncPtr, SYCLCG, ReqdSubGroupSize, InvalidDecls,
                   KernelSet, RecursiveSet, CalleeLoops, mk>>
    /\ UNCHANGED sigVars

\* The state MarkDevice starts in for the declarations decls, whose first ne
\* functions are the entry points of constructed (stateless) kernels, with
\* the attributes attrs and the language option allowFuncPtr.
MarkDeviceStarts(ne, decls, attrs, allowFuncPtr) ==
    /\ pc = "sema"
    /\ EmitRet = "none"
    /\ errs = <<>>
    /\ KernelDescs =
          [k \in 1..ne |->
              populateIntHeader(constructKernelName(KN1), KN1, StatelessKernelObj)]
    /\ OpenCLKernels =
          [k \in 1..ne |->
              OpenCLKernelOf(StatelessKernelObj, constructKernelName(KN1), 2 * UnsignedBits)]
    /\ SyclKernels = [k \in 1..ne |-> k]
    /\ SemaDiags = <<>>
    /\ Header = NoHeader
    /\ Decls = decls
    /\ SYCLAllowFuncPtr = allowFuncPtr
    /\ SYCLCG = addToCallGraph(decls)
    /\ ReqdSubGroupSize = attrs
    /\ InvalidDecls = {}
    /\ KernelSet = {}
    /\ RecursiveSet = {}
    /\ CalleeLoops = [f \in Funcs |-> 0]
    /\ DeviceAttr = 1..ne
    /\ AddedSyclKernels = [f \in Funcs |-> 0]
    /\ Traversed = [f \in Funcs |-> 0]
    /\ MarkDiags = {}
    /\ mpc = "collect"
    /\ mk = 1

\* Every program of calls, no attribute.
InitMark ==
    \E ne \in 1..2, calls \in Programs :
        MarkDeviceStarts(ne, DeclsOf(calls), [f \in Funcs |-> NoAttr], FALSE)

NextMark == MarkDeviceKernel \/ TraverseKernelSet

SpecMark == InitMark /\ [][NextMark]_vars

(***************************************************************************)
(* SpecBody: MarkDevice on sample translation units whose bodies hold      *)
(* every kind of site, with every assignment of the attribute to the       *)
(* functions and both settings of the language option.                     *)
(***************************************************************************)
SubGroupSizes == {16, 32}

\* Function f either has no attribute or one written on it.
AttrAssignments ==
    {[f \in Funcs |-> IF v[f] = 0 THEN NoAttr ELSE [fn |-> f, size |-> v[f]]] :
        v \in [Funcs -> {0} \cup SubGroupSizes]}

Undefined == FuncDecl(FALSE, FALSE, "int", <<>>)

\* The declarations with the given bodies for the first functions; the
\* other functions are declared only.
Unit(ds) == [f \in Funcs |-> IF f <= Len(ds) THEN ds[f] ELSE Undefined]

SampleUnits ==
    { \* the kernel constructs two objects of a class whose constructor calls
      \* a function and whose destructor throws
      [ne |-> 1, decls |-> Unit(<<
          FuncDecl(TRUE, FALSE, "int", <<Site("construct", 2, 3, "int", ""),
                                         Site("construct", 2, 3, "int", "")>>),
          FuncDecl(TRUE, FALSE, "int", <<CallSite(4)>>),
          FuncDecl(TRUE, FALSE, "int", <<PlainSite("throw")>>),
          FuncDecl(TRUE, FALSE, "int", <<PlainSite("typeid")>>)>>)],
      \* two callees that share a callee
      [ne |-> 1, decls |-> Unit(<<
          FuncDecl(TRUE, FALSE, "int", <<CallSite(2), CallSite(3)>>),
          FuncDecl(TRUE, FALSE, "int", <<PlainSite("throw"), CallSite(4)>>),
          FuncDecl(TRUE, FALSE, "int", <<PlainSite("typeid"), CallSite(4)>>),
          FuncDecl(TRUE, FALSE, "vla",
                   <<PlainSite("gccasm"), Site("new", 0, 0, "int", "")>>)>>)],
      \* a placement operator new and the global one (function 4,
      \* declared only), a call through a pointer, variables
      [ne |-> 1, decls |-> Unit(<<
          FuncDecl(TRUE, FALSE, "int",
                   <<Site("new", 2, 0, "int", ""),
                     Site("new", 4, 0, "int", "replaceable"), PlainSite("callptr"),
                     Site("vardecl", 0, 0, "vla", "local"),
                     Site("vardecl", 0, 0, "polymorphic", "local"),
                     Site("declref", 0, 0, "int", "staticlocal")>>),
          FuncDecl(TRUE, FALSE, "int",
                   <<Site("declref", 0, 0, "int", "global"),
                     Site("declref", 0, 0, "int", "constglobal"),
                     Site("declref", 0, 0, "int", "staticmember"),
                     Site("declref", 0, 0, "int", "local"),
                     CallSite(3)>>),
          FuncDecl(TRUE, FALSE, "int",
                   <<Site("member", 0, 0, "int", "staticmember"),
                     Site("member", 0, 0, "int", "conststaticmember")>>)>>)],
      \* two kernels, a recursion below them
      [ne |-> 2, decls |-> Unit(<<
          FuncDecl(TRUE, FALSE, "int", <<CallSite(3)>>),
          FuncDecl(TRUE, FALSE, "int", <<CallSite(3), CallSite(4)>>),
          FuncDecl(TRUE, FALSE, "int", <<CallSite(4), PlainSite("msasm")>>),
          FuncDecl(TRUE, FALSE, "int",
                   <<CallSite(3), PlainSite("dynamic_cast")>>)>>)],
      \* a function that is declared only, a virtual method, exceptions
      [ne |-> 2, decls |-> Unit(<<
          FuncDecl(TRUE, FALSE, "int",
                   <<CallSite(3), Site("call", 4, 0, "polymorphic", ""),
                     PlainSite("try"), PlainSite("catch"), PlainSite("sehtry")>>),
          FuncDecl(TRUE, FALSE, "int",
                   <<Site("construct", 4, 0, "vla", ""), PlainSite("throw"),
                     CallSite(4)>>),
          Undefined,
          FuncDecl(TRUE, TRUE, "polymorphic", <<PlainSite("throw")>>)>>)] }

InitBody ==
    \E u \in SampleUnits, attrs \in AttrAssignments, allowFuncPtr \in BOOLEAN :
        MarkDeviceStarts(u.ne, u.decls, attrs, allowFuncPtr)

SpecBody == InitBody /\ [][NextMark]_vars

(***************************************************************************)
(* Helpers of the properties.                                              *)
(***************************************************************************)
\* The field declaration at a path of a field list.
RECURSIVE FieldAt(_, _)
FieldAt(flds, path) ==
    IF Len(path) = 1 THEN flds[path[1]]
    ELSE FieldAt(flds[path[1]].fields, Tail(path))

\* All the paths of a field list, below prefix.
RECURSIVE PathsOf(_, _)
PathsOf(flds, prefix) ==
    UNION {{Append(prefix, i)} \cup PathsOf(flds[i].fields, Append(prefix, i))
             : i \in 1..Len(flds)}

\* Declaration (depth-first, pre-order) order of two paths.
RECURSIVE PathLess(_, _)
PathLess(a, b) ==
    IF a = <<>> THEN b # <<>>
    ELSE IF b = <<>> THEN FALSE
    ELSE \/ a[1] < b[1]
         \/ a[1] = b[1] /\ PathLess(Tail(a), Tail(b))

\* path[1..k]
Prefix(path, k) == SubSeq(path, 1, k)

\* The positions read by the field initializations of a body, in body order.
RECURSIVE UsesFrom(_, _)
UsesFrom(stmts, i) ==
    IF i > Len(stmts) THEN <<>>
    ELSE (IF stmts[i].op \in {"assign", "init"} THEN stmts[i].params ELSE <<>>)
            \o UsesFrom(stmts, i + 1)

SameType(a, b) == getCanonicalType(a) = getCanonicalType(b)

KernelIds == 1..Len(OpenCLKernels)

(***************************************************************************)
(* C1: the body built by CreateOpenCLKernelBody reads the entry point's    *)
(* parameters in lockstep with the slots of buildArgTys: the field         *)
(* initializations read the parameters 0, 1, ..., P-1 once each and in     *)
(* this order; the __init call of a special object reads exactly the       *)
(* NumParams slots built for that object, in the order of the __init       *)
(* parameters; an assignment reads the slot built for its field; and the   *)
(* cursor ends at P, the end of the parameter list.                        *)
(***************************************************************************)
C1_BodyLockstep ==
    \A k \in KernelIds :
        LET K == OpenCLKernels[k]
            P == Len(K.decl.Params)
        IN  /\ UsesFrom(K.body, 1) = [j \in 1..P |-> j - 1]
            /\ K.cursor = P
            /\ \A s \in 1..Len(K.body) :
                 LET st == K.body[s]
                 IN  /\ st.op = "init" =>
                           LET f == FieldAt(K.obj.fields, st.field)
                           IN  /\ f.kind \in {"accessor", "sampler"}
                               /\ Len(st.params) = getNumParams(f)
                               /\ \A j \in 1..Len(st.params) :
                                    /\ st.params[j] \in 0..(P - 1)
                                    /\ K.decl.Params[st.params[j] + 1].src = st.field
                                    /\ SameType(K.decl.Params[st.params[j] + 1].ty,
                                                InitParamType(f, j - 1))
                     /\ st.op = "assign" =>
                           /\ Len(st.params) = 1
                           /\ st.params[1] \in 0..(P - 1)
                           /\ K.decl.Params[st.params[1] + 1].src = st.field

\* A wrapper with a nested accessor of two __init parameters, followed by a
\* sibling field, has been through CreateOpenCLKernelBody.
C1_Witness ==
    \E k \in KernelIds :
        \E s \in 1..Len(OpenCLKernels[k].body) :
            /\ OpenCLKernels[k].body[s].op = "init"
            /\ Len(OpenCLKernels[k].body[s].field) = 2
            /\ Len(OpenCLKernels[k].body[s].params) = 2
            /\ s + 1 <= Len(OpenCLKernels[k].body)
            /\ OpenCLKernels[k].body[s + 1].op = "assign"

(***************************************************************************)
(* C2: the slots of buildArgTys are the blocks of the top-level fields in  *)
(* declaration order; the block of a special object with NumParams __init  *)
(* parameters has exactly NumParams slots, the i-th of the type of the     *)
(* i-th __init parameter; the block of a pointer or of a scalar has        *)
(* exactly one slot; the block of a wrapper starts with the slot of the    *)
(* wrapper itself, before the slots of the accessors nested in it.         *)
(***************************************************************************)
\* The slots made from the top-level field i or from a field nested in it.
BlockOf(slots, i) == SelectSeq(slots, LAMBDA s : s.src[1] = i)

RECURSIVE BlocksFrom(_, _, _)
BlocksFrom(slots, i, n) ==
    IF i > n THEN <<>> ELSE BlockOf(slots, i) \o BlocksFrom(slots, i + 1, n)

C2_SlotsPerField ==
    \A k \in KernelIds :
        LET K == OpenCLKernels[k]
            slots == K.decl.Params
            n == Len(K.obj.fields)
        IN  /\ [j \in 1..Len(slots) |-> slots[j].index] = [j \in 1..Len(slots) |-> j - 1]
            /\ slots = BlocksFrom(slots, 1, n)
            /\ \A i \in 1..n :
                 LET f == K.obj.fields[i]
                     B == BlockOf(slots, i)
                 IN  /\ f.kind \in {"accessor", "sampler"} =>
                           /\ Len(B) = getNumParams(f)
                           /\ \A j \in 1..Len(B) :
                                /\ B[j].src = <<i>>
                                /\ SameType(B[j].ty, InitParamType(f, j - 1))
                     /\ f.kind \in {"pointer", "scalar"} =>
                           /\ Len(B) = 1
                           /\ B[1].src = <<i>>
                     /\ f.kind = "pointer" => B[1].ty.tag = "pointer"
                     /\ f.kind = "scalar" => B[1].ty = FieldType(f)
                     /\ f.kind = "struct" =>
                           /\ Len(B) >= 1
                           /\ B[1].src = <<i>>
                           /\ B[1].ty = FieldType(f)
                           /\ \A j \in 2..Len(B) : Len(B[j].src) > 1

\* An accessor with two __init parameters heads a kernel object that also
\* holds a wrapper with a nested accessor.
C2_Witness ==
    \E k \in KernelIds :
        LET flds == OpenCLKernels[k].obj.fields
        IN  /\ Len(flds) = 2
            /\ flds[1].kind = "accessor" /\ flds[1].n = 2
            /\ flds[2].kind = "struct" /\ Len(flds[2].fields) = 1
            /\ flds[2].fields[1].kind = "accessor"
            /\ Len(OpenCLKernels[k].decl.Params) = 4

(***************************************************************************)
(* C3: with the run of slots of every special object replaced by one       *)
(* entry, the slot list of buildArgTys and the descriptor list of          *)
(* populateIntHeader have the same length, and their k-th entries come     *)
(* from the same field declaration and carry the same classification.      *)
(***************************************************************************)
\* The first slot of every run: a slot of a special object is the slot of
\* the __init parameter ty.i, a run starts with parameter 0.
Collapse(slots) ==
    SelectSeq(slots, LAMBDA s : s.ty.tag # "initparam" \/ s.ty.i = 0)

SlotClass(s) ==
    IF s.ty.tag = "initparam" THEN s.ty.decl.kind ELSE s.ty.tag

KindOfClass(c) ==
    CASE c = "accessor" -> "kind_accessor"
      [] c = "sampler"  -> "kind_sampler"
      [] c = "pointer"  -> "kind_pointer"
      [] OTHER          -> "kind_std_layout"

C3_SameTraversal ==
    \A k \in KernelIds :
        LET runs == Collapse(OpenCLKernels[k].decl.Params)
            descs == KernelDescs[k].Params
        IN  /\ Len(runs) = Len(descs)
            /\ \A j \in 1..Len(runs) :
                 /\ j <= Len(descs)
                 /\ runs[j].src = descs[j].src
                 /\ KindOfClass(SlotClass(runs[j])) = descs[j].Kind

\* An accessor two wrapper levels deep has got its slots and its descriptor.
C3_Witness ==
    \E k \in KernelIds :
        /\ \E j \in 1..Len(KernelDescs[k].Params) :
              Len(KernelDescs[k].Params[j].src) = 3
        /\ Len(OpenCLKernels[k].decl.Params) > Len(KernelDescs[k].Params)

(***************************************************************************)
(* C4: populateIntHeader registers the descriptors depth-first in field    *)
(* declaration order: one descriptor per top-level field, of the Kind of   *)
(* its classification, and one kind_accessor descriptor per accessor       *)
(* nested in a wrapper, after the wrapper's descriptor and before the      *)
(* next sibling's; with scalar and pointer fields only, the descriptor     *)
(* count is the field count.                                               *)
(***************************************************************************)
\* The accessors reached through wrappers only, starting in a top-level
\* wrapper that is no special object.
NestedAccessorPaths(flds) ==
    {p \in PathsOf(flds, <<>>) :
        /\ Len(p) > 1
        /\ FieldAt(flds, p).kind = "accessor"
        /\ flds[p[1]].kind = "struct"
        /\ \A d \in 2..(Len(p) - 1) :
              FieldAt(flds, Prefix(p, d)).kind \in {"struct", "sampler"}}

C4_DescriptorOrder ==
    \A k \in KernelIds :
        LET flds == OpenCLKernels[k].obj.fields
            descs == KernelDescs[k].Params
            tops == SelectSeq(descs, LAMBDA d : Len(d.src) = 1)
        IN  /\ Len(tops) = Len(flds)
            /\ \A i \in 1..Len(tops) :
                 /\ tops[i].src = <<i>>
                 /\ i <= Len(flds)
                 /\ tops[i].Kind = KindOfClass(flds[i].kind)
            /\ \A j \in 1..Len(descs) :
                 Len(descs[j].src) > 1 =>
                    /\ descs[j].Kind = "kind_accessor"
                    /\ descs[j].src \in NestedAccessorPaths(flds)
            /\ \A p \in NestedAccessorPaths(flds) :
                 \E j \in 1..Len(descs) : descs[j].src = p
            /\ \A a, b \in 1..Len(descs) :
                 a < b => PathLess(descs[a].src, descs[b].src)
            /\ (\A i \in 1..Len(flds) : flds[i].kind \in {"scalar", "pointer"})
                  => Len(descs) = Len(flds)

\* A wrapper with a nested accessor, followed by a pointer field.
C4_Witness ==
    \E k \in KernelIds :
        LET descs == KernelDescs[k].Params
        IN  /\ Len(descs) = 3
            /\ descs[1].Kind = "kind_std_layout"
            /\ descs[2].Kind = "kind_accessor" /\ Len(descs[2].src) = 2
            /\ descs[3].Kind = "kind_pointer"

(***************************************************************************)
(* C5: the Offset of a descriptor is the sum, along the path from the      *)
(* kernel object to the descriptor's field, of the byte offset of each     *)
(* field in its immediate owner.                                           *)
(***************************************************************************)
\* The byte offset of the field at path, relative to its immediate owner.
OffsetInOwner(KernelObj, path) ==
    IF Len(path) = 1
    THEN getFieldOffset(0, KernelObj.fields, path[1]) \div 8
    ELSE LET owner == FieldAt(KernelObj.fields, Prefix(path, Len(path) - 1))
         IN  getFieldOffset(HeaderOf(owner), owner.fields, path[Len(path)]) \div 8

RECURSIVE SumOfOffsets(_, _, _)
SumOfOffsets(KernelObj, path, d) ==
    IF d = 0 THEN 0
    ELSE SumOfOffsets(KernelObj, path, d - 1)
            + OffsetInOwner(KernelObj, Prefix(path, d))

C5_OffsetIsPathSum ==
    \A k \in KernelIds :
        \A j \in 1..Len(KernelDescs[k].Params) :
            LET d == KernelDescs[k].Params[j]
            IN  d.Offset = SumOfOffsets(OpenCLKernels[k].obj, d.src, Len(d.src))

\* An accessor two wrapper levels deep, the middle wrapper at a non-zero
\* offset in the outer one.
C5_Witness ==
    \E k \in KernelIds :
        \E j \in 1..Len(KernelDescs[k].Params) :
            LET d == KernelDescs[k].Params[j]
            IN  /\ Len(d.src) = 3
                /\ OffsetInOwner(OpenCLKernels[k].obj, Prefix(d.src, 2)) > 0
                /\ d.Offset > 0

(***************************************************************************)
(* The arrays of the emitted header, as its consumer reads them.           *)
(***************************************************************************)
IsEntry(l) == l.line = "entry"

\* kernel_signatures[]: the entries of the initializer, in order (0-based
\* index i is element i + 1 here).
kernel_signatures == SelectSeq(Header.signature_lines, IsEntry)

\* The line numbers of the "//--- <name>" comments: the k-th opens the
\* region of kernel k.
RegionLines ==
    SelectSeq([i \in 1..Len(Header.signature_lines) |-> i],
              LAMBDA i : Header.signature_lines[i].line = "comment")

\* The number of entries written above line number pos.
EntriesAbove(pos) ==
    Len(SelectSeq(SubSeq(Header.signature_lines, 1, pos), IsEntry))

\* The index in kernel_signatures of the first entry of the region of kernel
\* k, and the number of entries of that region.
RegionFirst(k) == EntriesAbove(RegionLines[k])

RegionSize(k) ==
    (IF k < Len(RegionLines)
     THEN EntriesAbove(RegionLines[k + 1])
     ELSE Len(kernel_signatures)) - RegionFirst(k)

\* The entry emit writes for a parameter descriptor.
EntryOf(d) == Line("entry", <<>>, d.Kind, d.Info, d.Offset)

RECURSIVE SumParams(_)
SumParams(k) == IF k = 0 THEN 0 ELSE SumParams(k - 1) + Len(KernelDescs[k].Params)

Emitted == pc = "emitted"

(***************************************************************************)
(* C6: in the emitted header, kernel_signature_start[k] is the index in    *)
(* kernel_signatures of the first parameter descriptor of kernel k.        *)
(***************************************************************************)
C6_StartIsRegionFirst ==
    Emitted =>
        \A k \in 1..Len(KernelDescs) :
            Len(KernelDescs[k].Params) >= 1 =>
                Header.kernel_signature_start[k] = RegionFirst(k)

(***************************************************************************)
(* C7: kernel_signatures holds, per kernel in registration order, the      *)
(* kernel's descriptors followed by exactly one sentinel entry, so it has  *)
(* sum over the kernels of (parameter count + 1) entries.                  *)
(***************************************************************************)
C7_SentinelPerKernel ==
    Emitted =>
        /\ Len(kernel_signatures) = SumParams(Len(KernelDescs)) + Len(KernelDescs)
        /\ \A k \in 1..Len(KernelDescs) :
             /\ RegionSize(k) = Len(KernelDescs[k].Params) + 1
             /\ \A i \in 1..Len(KernelDescs[k].Params) :
                  kernel_signatures[RegionFirst(k) + i] = EntryOf(KernelDescs[k].Params[i])

(***************************************************************************)
(* C8: the KernelInfo specialization of every kernel returns the kernel's  *)
(* name, the number of its parameter descriptors, and for 0 <= i <         *)
(* getNumParams, getParamDesc(i) is the entry of kernel_signatures that    *)
(* is the i-th descriptor of that kernel.                                  *)
(***************************************************************************)
C8_KernelInfoAccessors ==
    Emitted =>
        /\ Len(Header.KernelInfo) = Len(KernelDescs)
        /\ \A k \in 1..Len(KernelDescs) :
             LET KI == Header.KernelInfo[k]
                 K == KernelDescs[k]
             IN  /\ KI.NameType = K.NameType
                 /\ KI.getName = K.Name
                 /\ KI.getNumParams = Len(K.Params)
                 /\ \A i \in 0..(KI.getNumParams - 1) :
                      /\ i + KI.Base < Len(kernel_signatures)
                      /\ i + KI.Base = RegionFirst(k) + i
                      /\ i < RegionSize(k)
                      /\ kernel_signatures[i + KI.Base + 1] = EntryOf(K.Params[i + 1])

\* Three kernels are in the emitted header, the first two with parameters
\* and of different parameter counts.
C8_Witness ==
    /\ Emitted
    /\ Len(KernelDescs) = 3
    /\ Len(KernelDescs[1].Params) = 1
    /\ Len(KernelDescs[2].Params) = 2
    /\ Len(KernelDescs[3].Params) = 2

(***************************************************************************)
(* C9: kernel_signature_start has one entry per kernel, starts at 0, and   *)
(* start[k+1] - start[k] - 1 is the parameter count of kernel k; it is     *)
(* non-decreasing.                                                         *)
(***************************************************************************)
C9_StartArray ==
    Emitted =>
        LET start == Header.kernel_signature_start
        IN  /\ Len(start) = Len(KernelDescs)
            /\ Len(start) >= 1 => start[1] = 0
            /\ \A k \in 1..(Len(start) - 1) :
                 /\ start[k + 1] - start[k] - 1 = Len(KernelDescs[k].Params)
                 /\ start[k] <= start[k + 1]

\* Three kernels are in the emitted header, one of them without parameters.
C9_Witness ==
    /\ Emitted
    /\ Len(KernelDescs) = 3
    /\ Len(KernelDescs[1].Params) = 2
    /\ Len(KernelDescs[2].Params) = 0
    /\ Len(KernelDescs[3].Params) = 1

(***************************************************************************)
(* Reachability in the call graph.                                         *)
(***************************************************************************)
CalleeSet(f) == {SYCLCG[f][i] : i \in 1..Len(SYCLCG[f])}

\* The functions reachable from a function of S by at least one call.
RECURSIVE CalledFrom(_, _)
CalledFrom(S, seen) ==
    LET next == (UNION {CalleeSet(f) : f \in S}) \ seen
    IN  IF next = {} THEN seen ELSE CalledFrom(next, seen \cup next)

ReachableFrom(f) == {f} \cup CalledFrom({f}, {})

\* f takes part in a call cycle.
OnCycle(f) == f \in CalledFrom({f}, {})

\* The functions on a common cycle with f.
CycleOf(f) == {g \in CalledFrom({f}, {}) : f \in CalledFrom({g}, {})}

EntryPoints == {SyclKernels[i] : i \in 1..Len(SyclKernels)}

RecursionDiagIn(C) ==
    \E d \in MarkDiags :
        /\ d.kind = "KernelCallRecursiveFunction"
        /\ d.caller \in C
        /\ d.callee \in C

(***************************************************************************)
(* C10: when MarkDevice has returned, every call cycle that a function     *)
(* reachable from a kernel entry point (the entry point included) takes    *)
(* part in has got at least one recursive-call diagnostic, at a call of    *)
(* the cycle.                                                              *)
(***************************************************************************)
C10_CycleIsDiagnosed ==
    mpc = "done" =>
        \A k \in EntryPoints :
            \A f \in ReachableFrom(k) :
                OnCycle(f) => RecursionDiagIn(CycleOf(f))

\* The same for the cycles that no entry point takes part in: for these
\* the callee that closes the cycle is found in VisitedSet.
CycleBelowEntryIsDiagnosed ==
    mpc = "done" =>
        \A k \in EntryPoints :
            \A f \in ReachableFrom(k) :
                (OnCycle(f) /\ CycleOf(f) \cap EntryPoints = {})
                    => /\ RecursionDiagIn(CycleOf(f))
                       /\ RecursiveSet \cap CycleOf(f) # {}

(***************************************************************************)
(* C11: over all the kernel entry points of one MarkDevice run the loop of *)
(* CollectKernelSet over the callees of a function runs at most once, and  *)
(* exactly for the functions of KernelSet, so the traversal is bounded by  *)
(* the size of the call graph, with or without cycles and shared callees;  *)
(* no function ever leaves KernelSet.                                      *)
(***************************************************************************)
C11_CollectOncePerFunction ==
    /\ [](\A f \in Funcs :
            /\ CalleeLoops[f] <= 1
            /\ (CalleeLoops[f] = 1 <=> f \in KernelSet))
    /\ [][KernelSet \subseteq KernelSet']_vars

\* Two entry points have been collected from a graph with a cycle and with a
\* function that two functions of KernelSet call.
C11_Witness ==
    /\ mpc = "done"
    /\ Len(SyclKernels) = 2
    /\ RecursiveSet # {}
    /\ \E f \in KernelSet, g \in KernelSet, h \in KernelSet :
          /\ g # h
          /\ f \in CalleeSet(g)
          /\ f \in CalleeSet(h)

(***************************************************************************)
(* Reachability of definitions: the functions a body uses through a direct *)
(* call, a construction (the constructor and the user-declared destructor) *)
(* or a new-expression with an operator new that is not replaceable.       *)
(***************************************************************************)
UsedAt(s) ==
    CASE s.kind = "call" -> {s.callee}
      [] s.kind = "construct" -> {s.callee} \cup (IF s.dtor # 0 THEN {s.dtor} ELSE {})
      [] s.kind = "new" ->
            IF s.callee # 0 /\ s.flag # "replaceable" THEN {s.callee} ELSE {}
      [] OTHER -> {}

UsedBy(f) ==
    IF Decls[f].defined
    THEN UNION {UsedAt(Decls[f].body[i]) : i \in 1..Len(Decls[f].body)}
    ELSE {}

RECURSIVE UsedFrom(_, _)
UsedFrom(S, seen) ==
    LET next == (UNION {UsedBy(f) : f \in S}) \ seen
    IN  IF next = {} THEN seen ELSE UsedFrom(next, seen \cup next)

\* The functions whose definition is reachable from the entry point k.
DefinitionsReachableFrom(k) ==
    {f \in {k} \cup UsedFrom({k}, {}) : Decls[f].defined}

(***************************************************************************)
(* C12: after MarkDevice every function whose definition is reachable from *)
(* a kernel entry point, through direct calls, constructions or            *)
(* non-replaceable allocation functions, carries SYCLDeviceAttr and has    *)
(* had its body traversed by the Marker.                                   *)
(***************************************************************************)
C12_ReachableTaggedAndTraversed ==
    mpc = "done" =>
        \A k \in EntryPoints :
            \A f \in DefinitionsReachableFrom(k) :
                /\ f \in DeviceAttr
                /\ Traversed[f] >= 1

\* What holds instead: the definitions reachable through direct calls are
\* tagged and traversed once, and the definitions a traversed body uses are
\* tagged.
CallReachableTaggedAndTraversed ==
    mpc = "done" =>
        /\ \A k \in EntryPoints :
              \A f \in ReachableFrom(k) :
                 Decls[f].defined => (f \in DeviceAttr /\ Traversed[f] = 1)
        /\ \A f \in Funcs :
              Traversed[f] >= 1 =>
                 \A g \in UsedBy(f) : Decls[g].defined => g \in DeviceAttr
        /\ \A f \in Funcs : Traversed[f] >= 1 => f \in KernelSet

(***************************************************************************)
(* The attributes that reach an entry point: the ones written on the       *)
(* functions reachable from it, itself included.                           *)
(***************************************************************************)
AttrsReaching(k) ==
    {ReqdSubGroupSize[f] : f \in {g \in ReachableFrom(k) : ReqdSubGroupSize[g].fn = g}}

SizesReaching(k) == {A.size : A \in AttrsReaching(k)}

ConflictsOf(k) ==
    {d \in MarkDiags :
        d.id = "err_conflicting_sycl_kernel_attributes" /\ d.caller = k}

(***************************************************************************)
(* C13: when the attribute reaches an entry point from two functions, with *)
(* the values 16 and 32, MarkDevice has reported exactly one conflict for  *)
(* the entry point and marked it invalid; when it reaches it from two      *)
(* functions with the same value, no conflict is reported, the entry point *)
(* is not marked invalid and carries the attribute with that value.        *)
(***************************************************************************)
C13_AttributeConflict ==
    mpc = "done" =>
        \A k \in EntryPoints :
            Cardinality(AttrsReaching(k)) = 2 =>
                IF SizesReaching(k) = SubGroupSizes
                THEN /\ Cardinality(ConflictsOf(k)) = 1
                     /\ k \in InvalidDecls
                ELSE /\ ConflictsOf(k) = {}
                     /\ k \notin InvalidDecls
                     /\ SizesReaching(k) = {ReqdSubGroupSize[k].size}

\* MarkDevice has returned; one entry point got the same value from two
\* functions, another one the two values.
C13_Witness ==
    /\ mpc = "done"
    /\ \E k1 \in EntryPoints, k2 \in EntryPoints :
          /\ Cardinality(AttrsReaching(k1)) = 2
          /\ Cardinality(SizesReaching(k1)) = 1
          /\ ReqdSubGroupSize[k1].fn # k1
          /\ Cardinality(AttrsReaching(k2)) = 2
          /\ SizesReaching(k2) = SubGroupSizes
          /\ k2 \in InvalidDecls

(***************************************************************************)
(* The violations at site i of the body of f, as [id, kind] of the         *)
(* diagnostic each of them is reported with.                               *)
(***************************************************************************)
TypeViolation(Ty) ==
    CASE Ty = "vla" -> {[id |-> "err_vla_unsupported", kind |-> ""]}
      [] Ty = "polymorphic" -> {[id |-> "err_sycl_virtual_types", kind |-> ""]}
      [] OTHER -> {}

Restriction(kind) == {[id |-> "err_sycl_restrict", kind |-> kind]}

ViolationsAt(f, i) ==
    LET s == Decls[f].body[i]
    IN  CASE s.kind = "call" ->
                TypeViolation(s.ty) \cup TypeViolation(Decls[s.callee].ret)
                  \cup (IF Decls[s.callee].virtual
                        THEN Restriction("KernelCallVirtualFunction") ELSE {})
                  \cup (IF s.callee \in RecursiveSet
                        THEN Restriction("KernelCallRecursiveFunction") ELSE {})
          [] s.kind = "callptr" ->
                TypeViolation(s.ty)
                  \cup (IF SYCLAllowFuncPtr THEN {}
                        ELSE Restriction("KernelCallFunctionPointer"))
          [] s.kind = "construct" -> TypeViolation(s.ty)
          [] s.kind = "new" ->
                IF s.callee # 0 /\ s.flag = "replaceable"
                THEN Restriction("KernelAllocateStorage") ELSE {}
          [] s.kind = "vardecl" -> TypeViolation(s.ty)
          [] s.kind = "member" ->
                IF s.flag = "staticmember"
                THEN Restriction("KernelNonConstStaticDataVariable") ELSE {}
          [] s.kind = "declref" ->
                TypeViolation(s.ty)
                  \cup (IF s.flag = "staticmember"
                        THEN Restriction("KernelNonConstStaticDataVariable") ELSE {})
                  \cup (IF s.flag = "global"
                        THEN Restriction("KernelGlobalVariable") ELSE {})
          [] s.kind \in {"typeid", "dynamic_cast"} -> Restriction("KernelRTTI")
          [] s.kind \in {"throw", "catch", "try", "sehtry"} ->
                Restriction("KernelUseExceptions")
          [] s.kind \in {"gccasm", "msasm"} -> Restriction("KernelUseAssembly")

DiagsAt(f, i) ==
    {[id |-> d.id, kind |-> d.kind] : d \in {e \in MarkDiags : e.caller = f /\ e.site = i}}

ViolationSites(f) == {i \in 1..Len(Decls[f].body) : ViolationsAt(f, i) # {}}

(***************************************************************************)
(* C14: no diagnostic stops the analysis.  After MarkDevice every kernel   *)
(* entry point has been collected and had its body traversed, whether or   *)
(* not a conflict was reported for an earlier one, and every violation at  *)
(* every site of every traversed body has got its diagnostic, however many *)
(* were reported before it.                                                *)
(***************************************************************************)
C14_DiagnosticsDoNotStop ==
    mpc = "done" =>
        /\ mk = Len(SyclKernels) + 1
        /\ \A k \in EntryPoints :
              /\ k \in KernelSet
              /\ Traversed[k] = 1
        /\ \A f \in Funcs :
              Traversed[f] >= 1 =>
                 \A i \in 1..Len(Decls[f].body) : ViolationsAt(f, i) \subseteq DiagsAt(f, i)

\* A conflict was reported for the first of two entry points, the second
\* one was processed, and a body with three violation sites was traversed.
C14_Witness ==
    /\ mpc = "done"
    /\ Len(SyclKernels) = 2
    /\ SyclKernels[1] \in InvalidDecls
    /\ Traversed[SyclKernels[2]] = 1
    /\ \E f \in Funcs :
          /\ Traversed[f] = 1
          /\ Cardinality(ViolationSites(f)) >= 3
          /\ \A i \in ViolationSites(f) : DiagsAt(f, i) # {}

(***************************************************************************)
(* What a kernel name type mentions.                                       *)
(***************************************************************************)
\* The types given as type template arguments of T, inside packs included.
RECURSIVE TypesOfArgs(_, _)
TypesOfArgs(Args, i) ==
    IF i > Len(Args) THEN {}
    ELSE (CASE Args[i].kind = "type" -> {Args[i].ty}
            [] Args[i].kind = "pack" -> TypesOfArgs(Args[i].pack, 1)
            [] OTHER -> {})
           \cup TypesOfArgs(Args, i + 1)

\* T and the types that occur in it at any depth.
RECURSIVE TypesIn(_)
TypesIn(T) == {T} \cup UNION {TypesIn(X) : X \in TypesOfArgs(T.args, 1)}

\* The records and class templates T mentions.
DeclsIn(T) == {X.decl : X \in {Y \in TypesIn(T) : Y.decl # ""}}

RegisteredNameTypes == {KernelDescs[k].NameType : k \in 1..Len(KernelDescs)}

MentionedDecls == UNION {DeclsIn(T) : T \in RegisteredNameTypes}

\* The template specializations that occur in the registered name types.
Specializations ==
    {X \in UNION {TypesIn(T) : T \in RegisteredNameTypes} :
        X.decl # "" /\ TypeDecls[X.decl].template}

\* The records and templates named by the type arguments of X.
ArgDecls(X) == {Y.decl : Y \in {Z \in TypesOfArgs(X.args, 1) : Z.decl # ""}}

ForwardDecls == Header.forward_decls

IsForwardDeclared(D) == \E i \in 1..Len(ForwardDecls) : ForwardDecls[i].decl = D

\* The place of the (first) forward declaration of D.
PosOf(D) ==
    CHOOSE i \in 1..Len(ForwardDecls) :
        /\ ForwardDecls[i].decl = D
        /\ \A j \in 1..(i - 1) : ForwardDecls[j].decl # D

NotTopLevelErrors ==
    {SemaDiags[i].loc[2] :
        i \in {j \in 1..Len(SemaDiags) :
                  SemaDiags[j].id = "err_sycl_kernel_name_class_not_top_level"}}

(***************************************************************************)
(* C15: in the emitted header every record and class template that a       *)
(* registered kernel's name type mentions (directly, behind pointers, as a *)
(* type template argument at any depth, inside a pack) has a forward       *)
(* declaration, nothing else has one, and no declaration has two.          *)
(***************************************************************************)
C15_ForwardDeclaredOnce ==
    pc = "emitted" =>
        /\ \A D \in MentionedDecls : IsForwardDeclared(D)
        /\ \A i \in 1..Len(ForwardDecls) : ForwardDecls[i].decl \in MentionedDecls
        /\ \A i \in 1..Len(ForwardDecls), j \in 1..Len(ForwardDecls) :
              ForwardDecls[i].decl = ForwardDecls[j].decl => i = j

\* Two kernels whose name types share declarations, one of them behind
\* pointers and inside a pack, the other a template argument at depth two.
C15_Witness ==
    /\ pc = "emitted"
    /\ Len(KernelDescs) = 2
    /\ DeclsIn(KernelDescs[1].NameType) \cap DeclsIn(KernelDescs[2].NameType) # {}
    /\ KernelDescs[1].NameType # KernelDescs[2].NameType
    /\ {"S", "T", "A", "B"} \subseteq MentionedDecls
    /\ Len(ForwardDecls) >= 5

(***************************************************************************)
(* C16 as stated: for every specialization S<..., A, ...> that occurs in a *)
(* registered name type the forward declaration of A comes before the      *)
(* forward declaration of the template S.                                  *)
(***************************************************************************)
C16_ArgumentsBeforeTemplate ==
    pc = "emitted" =>
        \A X \in Specializations :
            \A A \in ArgDecls(X) \ {X.decl} : PosOf(A) < PosOf(X.decl)

(***************************************************************************)
(* C16, amended: for every specialization S<..., A, ...> that occurs in a  *)
(* registered name type the forward declaration of A comes before the one  *)
(* of the template S, unless S also occurs in a registered name type with  *)
(* template arguments that do not name A: then S may have been declared    *)
(* for that occurrence, before A.                                          *)
(***************************************************************************)
C16_ArgumentsBeforeTemplateFirstUse ==
    pc = "emitted" =>
        \A X \in Specializations :
            \A A \in ArgDecls(X) \ {X.decl} :
                \/ PosOf(A) < PosOf(X.decl)
                \/ \E Y \in Specializations : Y.decl = X.decl /\ A \notin ArgDecls(Y)

\* Two kernels were registered; a template occurs with the same argument
\* record in both name types and is declared after it, and another template
\* occurs with different arguments.
C16_Witness ==
    /\ pc = "emitted"
    /\ Len(KernelDescs) = 2
    /\ KernelDescs[1].NameType # KernelDescs[2].NameType
    /\ \E X \in Specializations :
          /\ \A Y \in Specializations : Y.decl = X.decl => ArgDecls(Y) = ArgDecls(X)
          /\ \E A \in ArgDecls(X) \ {X.decl} : PosOf(A) < PosOf(X.decl)
          /\ \E Y \in Specializations : Y # X /\ Y.decl = X.decl
    /\ \E X \in Specializations, Y \in Specializations :
          X.decl = Y.decl /\ ArgDecls(X) # ArgDecls(Y)

(***************************************************************************)
(* C17 as stated: a forward-declared record whose definition is complete   *)
(* gets the not-top-level error exactly when its declaration contexts are  *)
(* not named namespaces only.                                              *)
(***************************************************************************)
ThroughNamedNamespacesOnly(D) ==
    \A i \in 1..Len(TypeDecls[D].contexts) :
        /\ TypeDecls[D].contexts[i].kind = "namespace"
        /\ TypeDecls[D].contexts[i].name # ""

ThroughNamespacesOnly(D) ==
    \A i \in 1..Len(TypeDecls[D].contexts) :
        TypeDecls[D].contexts[i].kind = "namespace"

C17_ErrorUnlessNamedNamespaces ==
    pc = "emitted" =>
        \A i \in 1..Len(ForwardDecls) :
            LET D == ForwardDecls[i].decl
            IN  TypeDecls[D].complete =>
                   (D \in NotTopLevelErrors <=> ~ThroughNamedNamespacesOnly(D))

(***************************************************************************)
(* C17, amended: a forward-declared record gets the not-top-level error    *)
(* exactly when its definition is complete and its declaration contexts    *)
(* are not namespaces only; a namespace on the way may be anonymous (it is *)
(* opened around the forward declaration like a named one).                *)
(***************************************************************************)
C17_ErrorUnlessNamespaces ==
    pc = "emitted" =>
        /\ \A i \in 1..Len(ForwardDecls) :
              LET D == ForwardDecls[i].decl
              IN  D \in NotTopLevelErrors <=>
                     (TypeDecls[D].complete /\ ~ThroughNamespacesOnly(D))
        /\ NotTopLevelErrors \subseteq MentionedDecls

\* The header was emitted with a record of an anonymous namespace (no
\* error) and a function-local or class-nested one (error).
C17_Witness ==
    /\ pc = "emitted"
    /\ IsForwardDeclared("U")
    /\ "U" \notin NotTopLevelErrors
    /\ \E D \in NotTopLevelErrors : IsForwardDeclared(D) /\ TypeDecls[D].complete

(***************************************************************************)
(* C18: every special object (an accessor or a sampler) nested at any      *)
(* depth in a wrapper field has the slots of its __init parameters in the  *)
(* parameter list, after the slot of the wrapper and in field order, and   *)
(* is initialized by an __init call of the body that reads these slots.    *)
(***************************************************************************)
\* The paths of the special objects of the given kinds nested in a wrapper.
NestedSpecialPaths(flds, kinds) ==
    {p \in PathsOf(flds, <<>>) : Len(p) > 1 /\ FieldAt(flds, p).kind \in kinds}

\* The positions of the slots made from the field at a path.
SlotsOf(slots, p) == {j \in 1..Len(slots) : slots[j].src = p}

NestedSpecialsInitialized(kinds) ==
    \A k \in KernelIds :
        LET K == OpenCLKernels[k]
            slots == K.decl.Params
            Nested == NestedSpecialPaths(K.obj.fields, kinds)
        IN  /\ \A p \in Nested :
                 LET f == FieldAt(K.obj.fields, p)
                 IN  /\ Cardinality(SlotsOf(slots, p)) = getNumParams(f)
                     /\ \A j \in SlotsOf(slots, p) :
                          \A w \in SlotsOf(slots, <<p[1]>>) : w < j
                     /\ \E s \in 1..Len(K.body) :
                          /\ K.body[s].op = "init"
                          /\ K.body[s].field = p
                          /\ {q + 1 : q \in {K.body[s].params[i] :
                                  i \in 1..Len(K.body[s].params)}}
                                = SlotsOf(slots, p)
            /\ \A p, q \in Nested :
                 PathLess(p, q) =>
                    \A i \in SlotsOf(slots, p) : \A j \in SlotsOf(slots, q) : i < j

C18_NestedSpecialObjects == NestedSpecialsInitialized({"accessor", "sampler"})

\* What holds of the accessors nested in a wrapper.
NestedAccessorsInitialized == NestedSpecialsInitialized({"accessor"})

\* A kernel object with two accessors nested in a wrapper has been built.
NestedAccessorsBuilt ==
    \E k \in KernelIds :
        Cardinality(NestedSpecialPaths(OpenCLKernels[k].obj.fields, {"accessor"})) >= 2

(***************************************************************************)
(* C19: a top-level field of the kernel object whose type is neither a     *)
(* special object, a structure or class, a pointer nor a scalar makes      *)
(* ConstructOpenCLKernel stop in buildArgTys: no entry point of the        *)
(* translation unit and no descriptor of the registry comes from a kernel  *)
(* object with such a field.                                               *)
(***************************************************************************)
\* The top-level fields of a kernel object that no branch of buildArgTys takes.
UnsupportedFields(LE) ==
    {i \in 1..Len(LE.fields) : ~SupportedFieldType(LE.fields[i])}

AbortLeavesNothing ==
    pc = "aborted" => KernelDescs = <<>> /\ OpenCLKernels = <<>> /\ SyclKernels = <<>>

(***************************************************************************)
(* C20: after any sequence of ConstructOpenCLKernel calls no two           *)
(* descriptors of the registry have the same kernel name type.             *)
(***************************************************************************)
C20_OneDescriptorPerNameType ==
    \A i, j \in 1..Len(KernelDescs) :
        i # j => KernelDescs[i].NameType # KernelDescs[j].NameType

\* What holds instead: one descriptor per ConstructOpenCLKernel call that
\* went through, in call order, under the name type of the call.
OneDescriptorPerKernel ==
    /\ Len(KernelDescs) = Len(OpenCLKernels)
    /\ \A k \in KernelIds :
         KernelDescs[k].Name = OpenCLKernels[k].decl.Name

(***************************************************************************)
(* C21: emit(IntHeaderName) writes nothing and returns false when the name *)
(* is empty or the file cannot be opened, without aborting and without     *)
(* changing the registry; when the file opens it writes the whole header   *)
(* (every section, covering every registered kernel) and returns true.     *)
(***************************************************************************)
\* The header H holds every section for every kernel of the registry.
WholeHeader(H) ==
    /\ H.kernel_names = [I \in 1..Len(KernelDescs) |-> KernelDescs[I].Name]
    /\ Len(SelectSeq(H.signature_lines, LAMBDA l : l.line = "comment"))
          = Len(KernelDescs)
    /\ Len(SelectSeq(H.signature_lines, LAMBDA l : l.line \notin {"comment", "blank"}))
          = SumParams(Len(KernelDescs))
    /\ Len(H.kernel_signature_start) = Len(KernelDescs)
    /\ [I \in 1..Len(H.KernelInfo) |-> H.KernelInfo[I].NameType]
          = [I \in 1..Len(KernelDescs) |-> KernelDescs[I].NameType]
    /\ \A K \in RegisteredNameTypes :
          \A D \in DeclsIn(K) : \E i \in 1..Len(H.forward_decls) :
              H.forward_decls[i].decl = D

C21_EmitFile ==
    [][\A IntHeaderName \in IntHeaderNames, EC \in OpenErrors :
          emitFile(IntHeaderName, EC) =>
             /\ KernelDescs' = KernelDescs
             /\ pc' # "aborted"
             /\ IF IntHeaderName = "" \/ EC # ""
                THEN EmitRet' = FALSE /\ Header' = NoHeader
                ELSE EmitRet' = TRUE /\ WholeHeader(Header')]_vars

\* emit has failed to open the file with two kernels registered.
C21_Witness ==
    /\ pc = "emit_failed"
    /\ EmitRet = FALSE
    /\ errs # <<>>
    /\ Len(KernelDescs) = 2

(***************************************************************************)
(* C22: for every wrapper field of a kernel object that is not             *)
(* standard-layout, buildArgTys has reported the layout diagnostic at the  *)
(* declaration that produced this very field (for a lambda, the variable   *)
(* captured into the field; field i of a lambda holds capture i), and has  *)
(* appended the slot of the field.                                         *)
(***************************************************************************)
\* The top-level wrapper fields of a kernel object that are not standard-layout.
NonStdLayoutFields(LE) ==
    {i \in 1..Len(LE.fields) :
        /\ ~isSyclAccessorType(LE.fields[i])
        /\ ~isSyclSamplerType(LE.fields[i])
        /\ isStructureOrClassType(LE.fields[i])
        /\ ~isStandardLayoutType(LE.fields[i])}

\* The declaration field i of the kernel object comes from.
SourceOfField(LE, i) == IF LE.lambda THEN <<"capture", i>> ELSE <<"field", i>>

LayoutDiagLocs ==
    {SemaDiags[j].loc : j \in {n \in 1..Len(SemaDiags) :
                                 SemaDiags[n].id = "err_sycl_non_std_layout_type"}}

C22_LayoutDiagAtField ==
    \A k \in KernelIds :
        LET LE == OpenCLKernels[k].obj
        IN  \A i \in NonStdLayoutFields(LE) :
                /\ SourceOfField(LE, i) \in LayoutDiagLocs
                /\ SlotsOf(OpenCLKernels[k].decl.Params, <<i>>) # {}

\* What holds: one diagnostic per such field, the slot is appended, and the
\* diagnostic of a lambda is at its first capture whatever the field.
LayoutDiagAtFirstCapture ==
    \A k \in KernelIds :
        LET LE == OpenCLKernels[k].obj
            n == Len(SelectSeq(SemaDiags,
                       LAMBDA d : d.id = "err_sycl_non_std_layout_type"))
        IN  /\ n = Cardinality(NonStdLayoutFields(LE))
            /\ \A i \in NonStdLayoutFields(LE) :
                  /\ (IF LE.lambda THEN <<"capture", 1>> ELSE <<"field", i>>)
                        \in LayoutDiagLocs
                  /\ SlotsOf(OpenCLKernels[k].decl.Params, <<i>>) # {}

(***************************************************************************)
(* C23: the body built by CreateOpenCLKernelBody starts with the           *)
(* declaration of the local kernel object and ends with the spliced body   *)
(* of the kernel caller; between them stand the field initializations in   *)
(* field-declaration order: one for every top-level field, the assignment  *)
(* of a wrapper before the __init calls of the accessors nested in it,     *)
(* and these before the initialization of the next sibling field.          *)
(***************************************************************************)
C23_BodyOrder ==
    \A k \in KernelIds :
        LET K == OpenCLKernels[k]
            B == K.body
            n == Len(B)
        IN  /\ n >= 2
            /\ B[1].op = "decl"
            /\ B[n].op = "callerbody"
            /\ \A s \in 2..(n - 1) : B[s].op \in {"assign", "init"}
            /\ \A s, t \in 2..(n - 1) :
                  s < t => PathLess(B[s].field, B[t].field)
            /\ Len(K.decl.Params) > 0 =>
                  /\ \A i \in 1..Len(K.obj.fields) :
                        \E s \in 2..(n - 1) : B[s].field = <<i>>
                  /\ \A p \in NestedSpecialPaths(K.obj.fields, {"accessor"}) :
                        \E s, w \in 2..(n - 1) :
                           /\ w < s
                           /\ B[w].op = "assign" /\ B[w].field = <<p[1]>>
                           /\ B[s].op = "init" /\ B[s].field = p

\* The body of a kernel whose first field is a wrapper with a nested
\* accessor and whose second field is a special object.
C23_Witness ==
    \E k \in KernelIds :
        LET B == OpenCLKernels[k].body
        IN  /\ Len(B) = 5
            /\ B[2].op = "assign" /\ B[2].field = <<1>>
            /\ B[3].op = "init" /\ Len(B[3].field) = 2
            /\ B[4].op = "init" /\ B[4].field = <<2>>

(***************************************************************************)
(* C24: in the emitted header the two views of the descriptor table        *)
(* agree: for every kernel k, the base index the KernelInfo specialization *)
(* adds in getParamDesc equals kernel_signature_start[k].                  *)
(***************************************************************************)
C24_BaseIsStart ==
    Emitted =>
        \A k \in 1..Len(KernelDescs) :
            Header.KernelInfo[k].Base = Header.kernel_signature_start[k]

\* What holds: the start of kernel k is its base plus the number of the
\* kernels before it.
StartIsBasePlusRank ==
    Emitted =>
        \A k \in 1..Len(KernelDescs) :
            Header.kernel_signature_start[k] = Header.KernelInfo[k].Base + (k - 1)

(***************************************************************************)
(* C25: every function CollectKernelSet puts in RecursiveSet lies on a     *)
(* call cycle; when no function reachable from an entry point lies on a    *)
(* cycle, RecursiveSet is empty and no recursive-call diagnostic is        *)
(* reported, however many paths or kernels reach a function.               *)
(***************************************************************************)
RecursionDiags == {d \in MarkDiags : d.kind = "KernelCallRecursiveFunction"}

C25_RecursiveSetOnCycles ==
    /\ \A f \in RecursiveSet : OnCycle(f)
    /\ \A d \in RecursionDiags : OnCycle(d.callee)
    /\ (\A k \in EntryPoints : \A f \in ReachableFrom(k) : ~OnCycle(f))
          => RecursiveSet = {} /\ RecursionDiags = {}

\* MarkDevice has returned for two kernels over an acyclic call graph in
\* which both kernels call a function g, and a function f is called by g
\* and by a kernel: f is reached from two kernels and through two paths.
C25_Witness ==
    /\ mpc = "done"
    /\ Len(SyclKernels) = 2
    /\ \A f \in Funcs : ~OnCycle(f)
    /\ \E f, g \in Funcs \ EntryPoints :
          /\ f # g
          /\ \A k \in EntryPoints : g \in CalleeSet(k)
          /\ f \in CalleeSet(g)
          /\ \E k \in EntryPoints : f \in CalleeSet(k)
          /\ CalleeLoops[f] = 1

(***************************************************************************)
(* C26: during one MarkDevice run no function definition gets              *)
(* SYCLDeviceAttr added more than once, and AddSyclKernel is called for    *)
(* none more than once, whether the definition is met through a call, a    *)
(* construction, a user-declared destructor or an operator new.            *)
(***************************************************************************)
C26_TaggedOnce == \A f \in Funcs : AddedSyclKernels[f] <= 1

\* The constructors and destructors of the construction sites.
Constructed ==
    UNION {UNION {{Decls[f].body[i].callee, Decls[f].body[i].dtor} :
                     i \in {j \in 1..Len(Decls[f].body) :
                               Decls[f].body[j].kind = "construct"}}
           : f \in Funcs} \ {0}

\* What holds: a definition that no construction names is tagged at most
\* once, and a constructed one once per construction site traversed.
TaggedOnceUnlessConstructed ==
    \A f \in Funcs \ Constructed : AddedSyclKernels[f] <= 1

(***************************************************************************)
(* C27: the outcome of the attribute propagation for an entry point does   *)
(* not depend on the order the collected attribute set is iterated in: any *)
(* two orders give the same number of conflict diagnostics, the same       *)
(* invalid mark and the same attribute value on the entry point.           *)
(***************************************************************************)
\* The outcomes of the propagation loop for the kernel MarkDevice is at, one
\* per iteration order of the collected set.
PropagationOutcomes ==
    LET SYCLKernel == SyclKernels[mk]
    IN  {PropagateAttrs(SYCLKernel, order, 1,
                        [attr |-> ReqdSubGroupSize[SYCLKernel],
                         invalid |-> FALSE, diags |-> {}]) :
            order \in Orders(CollectPossibleKernelAttributes(SYCLKernel))}

AtPropagation == mpc = "collect" /\ mk <= Len(SyclKernels)

\* Whatever order the loop of a MarkDeviceKernel step took, the step leaves
\* what every other order would have left.
C27_OrderIndependent ==
    [][MarkDeviceKernel =>
          \A a \in PropagationOutcomes :
              /\ Cardinality(MarkDiags') = Cardinality(MarkDiags \cup a.diags)
              /\ (SyclKernels[mk] \in InvalidDecls') =
                    (a.invalid \/ SyclKernels[mk] \in InvalidDecls)
              /\ ReqdSubGroupSize'[SyclKernels[mk]].size = a.attr.size]_vars

\* What holds: the invalid mark does not depend on the order.
InvalidMarkOrderIndependent ==
    AtPropagation =>
        \A a1, a2 \in PropagationOutcomes : a1.invalid = a2.invalid

(***************************************************************************)
(* C28: a special object whose __init method has no parameter consumes no  *)
(* parameter of the entry point in CreateOpenCLKernelBody: the fields      *)
(* after it stay in lockstep with the slots of buildArgTys, every          *)
(* initialization reads slots made for its own field, inside the parameter *)
(* list, and the cursor ends at the end of the list.                       *)
(***************************************************************************)
\* The body of the entry point K reads, for every field, slots of that field.
InLockstep(K) ==
    LET P == Len(K.decl.Params)
    IN  /\ K.cursor = P
        /\ \A s \in 1..Len(K.body) :
              \A j \in 1..Len(K.body[s].params) :
                 /\ K.body[s].params[j] \in 0..(P - 1)
                 /\ K.decl.Params[K.body[s].params[j] + 1].src = K.body[s].field

\* The special objects of a kernel object, at any depth, whose __init method
\* has no parameter.
ZeroParamObjects(LE) ==
    {p \in PathsOf(LE.fields, <<>>) :
        /\ FieldAt(LE.fields, p).kind \in {"accessor", "sampler"}
        /\ getNumParams(FieldAt(LE.fields, p)) = 0}

C28_ZeroParamsKeepLockstep ==
    \A k \in KernelIds : InLockstep(OpenCLKernels[k])

\* What holds: the kernels without such an object are in lockstep.
LockstepWithoutZeroParams ==
    \A k \in KernelIds :
        ZeroParamObjects(OpenCLKernels[k].obj) = {} => InLockstep(OpenCLKernels[k])

(***************************************************************************)
(* C29: the Info of an accessor descriptor, target | (dims << 11), decodes *)
(* without loss for every target of the enumeration and 1 to 3 (MaxDims)   *)
(* dimensions: Info mod 2^11 is the target, Info div 2^11 the dimension    *)
(* count, and two descriptors of different (target, dims) differ in Info.  *)
(***************************************************************************)
\* The accessor descriptors of the registry, each with the field it was
\* registered for.
AccessorDescs ==
    UNION {{[Info |-> KernelDescs[k].Params[j].Info,
             fld  |-> FieldAt(OpenCLKernels[k].obj.fields,
                              KernelDescs[k].Params[j].src)] :
              j \in {i \in 1..Len(KernelDescs[k].Params) :
                       KernelDescs[k].Params[i].Kind = "kind_accessor"}}
           : k \in KernelIds}

C29_InfoDecodes ==
    /\ \A d \in AccessorDescs :
          /\ d.Info % (2 ^ 11) = getAccessTarget(d.fld)
          /\ d.Info \div (2 ^ 11) = AccessorDims(d.fld)
    /\ \A d, e \in AccessorDescs :
          (getAccessTarget(d.fld) # getAccessTarget(e.fld)
              \/ AccessorDims(d.fld) # AccessorDims(e.fld)) => d.Info # e.Info

\* The registry holds the descriptors of an image_array accessor of three
\* dimensions and of a global_buffer accessor of one dimension.
C29_Witness ==
    \E d, e \in AccessorDescs :
        /\ getAccessTarget(d.fld) = image_array /\ AccessorDims(d.fld) = 3
        /\ getAccessTarget(e.fld) = global_buffer /\ AccessorDims(e.fld) = 1
====
